---- MODULE Spec2Model ----
(***************************************************************************)
(* A model of the Katzenpost mix server core: the persistent, refcounted   *)
(* mix key with its replay-tag store (internal/mixkey/mixkey.go) and the   *)
(* PKI document cache with its peer authentication policy.                 *)
(*                                                                         *)
(* Go's uint64 values are kept at their full width: a uint64 is modelled   *)
(* as the sequence of its 8 little-endian bytes, which is also the form    *)
(* encoding/binary.LittleEndian stores it in.                              *)
(***************************************************************************)
EXTENDS Integers, Sequences, FiniteSets, TLC

(***************************************************************************)
(* Bounds of the model.                                                    *)
(***************************************************************************)
\* Number of distinct non-empty replay tags.
NumTags == 2
\* Number of concurrent callers of IsReplay (crypto workers).
NumWorkers == 2
\* Most Ref() calls made on one MixKey object.
MaxRefCalls == 2
\* Most IsReplay() calls begun on one data directory.
MaxReplayCalls == 3
\* The wall clock runs over the epochs 0..MaxEpoch.
MaxEpoch == 3
\* Number of peers a PKI document can list.
NumPeers == 1
\* Most topology layers of the small PKI documents.
MaxLayers == 3
\* Number of addresses the server is configured to listen on.
NumAddresses == 2
\* cfg.Debug.NumSphinxWorkers of the model.
NumSphinxWorkers == 1
\* Number of callers of Shutdown() besides New itself.
NumCallers == 2
\* Number of user names and of link keys the user database is tried with.
NumUsers == 2
NumKeys == 2
\* Number of goroutines reading the PKI cache beside the worker.
NumReaders == 1

(***************************************************************************)
(* uint64.  In memory a uint64 is four 16-bit limbs, least significant     *)
(* first; on disk it is the eight bytes binary.LittleEndian writes.        *)
(***************************************************************************)
\* The length of an encoded uint64 (var seenBytes [8]byte).
Uint64Len == 8
Limbs == 1..4

\* The uint64 of a natural number below 2^31.
U64(n) == <<n % 65536, (n \div 65536) % 65536, 0, 0>>

\* math.MaxUint64.
MaxUint64 == [i \in Limbs |-> 65535]
ZeroUint64 == [i \in Limbs |-> 0]

RECURSIVE IncLimbs(_)
\* x + 1 with wrap-around: ripple carry from the low limb.
IncLimbs(x) ==
    IF x = <<>> THEN <<>>
    ELSE IF Head(x) = 65535 THEN <<0>> \o IncLimbs(Tail(x))
    ELSE <<Head(x) + 1>> \o Tail(x)

RECURSIVE DecLimbs(_)
\* x - 1 with wrap-around: ripple borrow from the low limb.
DecLimbs(x) ==
    IF x = <<>> THEN <<>>
    ELSE IF Head(x) = 0 THEN <<65535>> \o DecLimbs(Tail(x))
    ELSE <<Head(x) - 1>> \o Tail(x)

RECURSIVE LtLimbs(_, _)
\* Unsigned x < y.
LtLimbs(x, y) ==
    IF x = <<>> THEN FALSE
    ELSE LET n == Len(x) IN
         IF x[n] # y[n] THEN x[n] < y[n]
         ELSE LtLimbs(SubSeq(x, 1, n - 1), SubSeq(y, 1, n - 1))

\* binary.LittleEndian.PutUint64: byte 2j-1 and 2j are the low and high half of limb j.
PutUint64(x) ==
    [i \in 1..Uint64Len |->
        IF i % 2 = 1 THEN x[(i + 1) \div 2] % 256 ELSE x[i \div 2] \div 256]

\* binary.LittleEndian.Uint64 of eight bytes.
Uint64(b) == [j \in Limbs |-> b[2 * j - 1] + 256 * b[2 * j]]

(***************************************************************************)
(* Values.                                                                 *)
(***************************************************************************)
\* A bucket entry is <<>> when the key does not exist (Get returns nil) and
\* <<b>> when it holds the byte string b (which may itself be empty).
Absent == <<>>
Present(b) == <<b>>

\* Replay tags are byte strings; the empty one is the malformed tag.
EmptyTag == <<>>
NonEmptyTags == {<<t>> : t \in 1..NumTags}
Tags == {EmptyTag} \cup NonEmptyTags

Workers == 1..NumWorkers

\* ecdh.PrivateKeySize: the length FromBytes accepts.
PrivateKeySize == 32
KeyOf(n) == [i \in 1..PrivateKeySize |-> n]
\* The private keys rand.Reader can yield in the model.
FreshKeys == {KeyOf(1), KeyOf(2)}
\* keypair.Reset() overwrites the private scalar with zeros.
ZeroKey == KeyOf(0)
\* An entry FromBytes rejects: not PrivateKeySize bytes long.
ShortKey == <<1, 1>>
\* No PrivateKey object is allocated.
NoKey == <<>>
\* The public half is a deterministic, injective function of the private half.
PublicKey(priv) == [i \in 1..Len(priv) |-> (priv[i] + 100) % 256]
NoPub == <<>>

ClockEpochs == {U64(n) : n \in 0..MaxEpoch}
\* The epochs New is asked for.
KeyEpochs == {U64(0), U64(1)}

(***************************************************************************)
(* State of the mix key (internal/mixkey/mixkey.go).                       *)
(***************************************************************************)
VARIABLES
    now,        \* the epoch epochtime.Now() reports
    reqEpoch,   \* the epoch New is called with; names the file mixkey-<epoch>.db
    file,       \* the bolt database file on disk
    flock,      \* the file is held open (bolt takes an exclusive flock)
    k,          \* the MixKey object New returned last
    privMem,    \* the bytes of the ecdh.PrivateKey object k.keypair points to
    writer,     \* the worker inside a bolt read-write transaction, or 0
    wpc,        \* per worker: position inside IsReplay
    wtag,       \* per worker: the tag IsReplay was called with
    wseen,      \* per worker: the local seenCount
    panicked,   \* the process has panicked
    \* history of the run, read by the properties only
    op,         \* the operation that ran last and what it returned
    firstRet,   \* per tag: what the first IsReplay call to return said
    falseRet,   \* per tag: how many IsReplay calls returned false (capped at 2)
    wrace,      \* per worker: its call on a fresh tag met another call on that tag
    raceDone,   \* per tag: how many such calls have returned (capped at 2)
    seenAtOpen, \* the tags IsReplay had returned for when the file was last opened
    firstPub,   \* the public key of the first MixKey opened on the file
    createdHere, \* the file's keypair was generated by New in this run
    closedByDeref, \* a MixKey on the file was closed by its last Deref
    reopened,   \* k was loaded from a file an earlier MixKey was closed on
    closeCount, \* how many times forceClose ran on k (capped at 2)
    nRef,       \* Ref() calls on k that returned
    nDeref,     \* Deref() calls on k that returned
    nCalls      \* IsReplay() calls begun on this file

mixVars == <<now, reqEpoch, file, flock, k, privMem, writer, wpc, wtag, wseen,
             wrace,
             panicked, op, firstRet, falseRet, raceDone, seenAtOpen, firstPub,
             createdHere, closedByDeref, reopened, closeCount, nRef, nDeref, nCalls>>

\* The mix key's variables other than the clock.
mixRest == <<reqEpoch, file, flock, k, privMem, writer, wpc, wtag, wseen, wrace,
             panicked, op, firstRet, falseRet, raceDone, seenAtOpen, firstPub,
             createdHere, closedByDeref, reopened, closeCount, nRef, nDeref,
             nCalls>>

(***************************************************************************)
(* State of the PKI cache (pki.go).                                        *)
(***************************************************************************)
VARIABLES
    elapsed,    \* minutes into the epoch, as epochtime.Now() reports
    docs,       \* p.docs: the cache entry of each epoch, if any
    disableMixAuth, \* cfg.Debug.DisableMixAuthentication
    implSet,    \* p.impl is configured
    authRet     \* the call on the PKI that has just returned: its arguments
                \* and what it returned

pkiVars == <<elapsed, docs, disableMixAuth, implSet, authRet>>


\* No file: bolt.Open will create it.
NoFile ==
    [exists |-> FALSE, version |-> Absent, privateKey |-> Absent,
     epochKey |-> Absent, replay |-> [t \in NonEmptyTags |-> Absent]]

\* The file bolt.Open creates: no bucket holds anything yet.
EmptyDb == [NoFile EXCEPT !.exists = TRUE]

\* The file a successful New(dataDir, epoch) leaves behind (lines 243-245).
CreatedDb(f, priv, epoch) ==
    [f EXCEPT !.exists = TRUE,
              !.version = Present(<<0>>),
              !.privateKey = Present(priv),
              !.epochKey = Present(PutUint64(epoch))]

\* No MixKey object.
NoMixKey ==
    [exists |-> FALSE, db |-> FALSE, keypair |-> FALSE, epoch |-> ZeroUint64,
     refCount |-> 0, unlinkIfExpired |-> FALSE]

NoOp == [name |-> "init", ret |-> "-", tag |-> EmptyTag]

\* The contents a data directory can hold when the process starts: files
\* written by an earlier run and files damaged since.
VersionEntries == {Present(<<0>>), Present(<<>>), Present(<<1>>), Present(<<0, 0>>)}
PrivateKeyEntries == {Present(KeyOf(1)), Absent, Present(ShortKey)}
EpochEntries(e) ==
    {Present(PutUint64(e)), Absent, Present(SubSeq(PutUint64(e), 1, Uint64Len - 1)),
     Present(PutUint64(IncLimbs(e)))}

\* Every combination of metadata entries a damaged or foreign file can hold.
DamagedFiles(e) ==
    {[EmptyDb EXCEPT !.version = v, !.privateKey = pk, !.epochKey = ek] :
        v \in VersionEntries, pk \in PrivateKeyEntries, ek \in EpochEntries(e)}

\* A file of an earlier run whose counter of tag <<1>> is one short of
\* math.MaxUint64.
WornFile(e) ==
    [CreatedDb(EmptyDb, KeyOf(1), e) EXCEPT
        !.replay[<<1>>] = Present(PutUint64(DecLimbs(MaxUint64)))]

\* The tags a file records as seen.
StoredTags(f) == {t \in NonEmptyTags : f.replay[t] # Absent}

\* The state of a fresh process that finds file f, is asked for epoch e and
\* reads epoch n from the clock.
MixStart(f, e, n) ==
    /\ now = n
    /\ reqEpoch = e
    /\ file = f
    /\ flock = FALSE
    /\ k = NoMixKey
    /\ privMem = NoKey
    /\ writer = 0
    /\ wpc = [w \in Workers |-> "idle"]
    /\ wtag = [w \in Workers |-> EmptyTag]
    /\ wseen = [w \in Workers |-> ZeroUint64]
    /\ panicked = FALSE
    /\ op = NoOp
    /\ firstRet = [t \in Tags |-> IF t \in StoredTags(f) THEN "false" ELSE "none"]
    /\ falseRet = [t \in Tags |-> IF t \in StoredTags(f) THEN 1 ELSE 0]
    /\ wrace = [w \in Workers |-> FALSE]
    /\ raceDone = [t \in Tags |-> 0]
    /\ seenAtOpen = {}
    /\ firstPub = NoPub
    /\ createdHere = FALSE
    /\ closedByDeref = FALSE
    /\ reopened = FALSE
    /\ closeCount = 0
    /\ nRef = 0
    /\ nDeref = 0
    /\ nCalls = 0

(***************************************************************************)
(* New: create or load the mix key of an epoch (lines 168-258).            *)
(***************************************************************************)
\* The load branch of New's transaction (lines 197-231): "ok", "err" when the
\* closure returns an error, "panic" when it faults.
LoadOutcome(f, epoch) ==
    LET b == f.version[1] IN
    IF Len(b) # 1 \/ b[1] # 0
    THEN \* fmt.Errorf(..., uint(b[0])) indexes b before the error is built.
         IF Len(b) = 0 THEN "panic" ELSE "err"
    ELSE IF f.privateKey = Absent THEN "err"
    ELSE IF Len(f.privateKey[1]) # PrivateKeySize THEN "err"
    ELSE IF f.epochKey = Absent THEN "err"
    ELSE IF Len(f.epochKey[1]) # Uint64Len THEN "err"
    ELSE IF Uint64(f.epochKey[1]) # epoch THEN "err"
    ELSE "ok"

\* New never takes the load branch: every call generates a keypair.
NewOutcomeAlwaysCreates(f, epoch) == "create"

\* What New's transaction does with the file it opened (lines 187-248).
NewOutcome(f, epoch) ==
    IF f.version # Absent THEN LoadOutcome(f, epoch) ELSE "create"

\* The tags some IsReplay call has returned for.
ReturnedTags == {t \in NonEmptyTags : firstRet[t] # "none"}

NewOpenFails ==
    \* bolt.Open fails (lines 181-184): nothing was opened.
    /\ k' = NoMixKey
    /\ privMem' = NoKey
    /\ op' = [name |-> "New", ret |-> "err", tag |-> EmptyTag]
    /\ UNCHANGED <<file, flock, panicked, firstPub, createdHere, reopened,
                   seenAtOpen>>

NewOpened(fresh) ==
    LET outcome == NewOutcome(file, reqEpoch)
        priv == IF outcome = "create" THEN fresh ELSE file.privateKey[1]
    IN
    /\ op' = [name |-> "New", ret |-> outcome, tag |-> EmptyTag]
    /\ IF outcome \in {"ok", "create"}
       THEN /\ k' = [exists |-> TRUE, db |-> TRUE, keypair |-> TRUE,
                     epoch |-> reqEpoch, refCount |-> 1,
                     unlinkIfExpired |-> FALSE]
            /\ privMem' = priv
            /\ file' = IF outcome = "create"
                       THEN CreatedDb(file, priv, reqEpoch) ELSE file
            /\ flock' = TRUE
            /\ panicked' = FALSE
            /\ firstPub' = IF firstPub = NoPub THEN PublicKey(priv) ELSE firstPub
            /\ createdHere' = (createdHere \/ outcome = "create")
            /\ reopened' = (outcome = "ok" /\ closedByDeref)
            /\ seenAtOpen' = ReturnedTags
       ELSE /\ k' = NoMixKey
            /\ privMem' = NoKey
            \* The transaction is rolled back; bolt.Open has created the file.
            /\ file' = [file EXCEPT !.exists = TRUE]
            \* k.db.Close() on the error path (line 249); a panic skips it.
            /\ flock' = (outcome = "panic")
            /\ panicked' = (outcome = "panic")
            /\ UNCHANGED <<firstPub, createdHere, reopened, seenAtOpen>>

New ==
    /\ ~panicked
    /\ ~flock          \* bolt.Open waits for the file lock
    /\ \A w \in Workers : wpc[w] = "idle"
    /\ \/ NewOpenFails
       \/ \E fresh \in FreshKeys : NewOpened(fresh)
    /\ closeCount' = 0
    /\ nRef' = 0
    /\ nDeref' = 0
    /\ UNCHANGED <<now, reqEpoch, writer, wpc, wtag, wseen, wrace, firstRet, falseRet,
                   raceDone, closedByDeref, nCalls>>

(***************************************************************************)
(* IsReplay: test and set a replay tag (lines 72-111).                     *)
(***************************************************************************)
\* What a returning IsReplay(t) adds to the history.
RecordReturn(t, r) ==
    /\ firstRet' = IF firstRet[t] = "none" THEN [firstRet EXCEPT ![t] = r]
                   ELSE firstRet
    /\ falseRet' = IF r = "false" /\ falseRet[t] < 2
                   THEN [falseRet EXCEPT ![t] = @ + 1] ELSE falseRet

\* The other workers inside a call on tag t.
Rivals(w, t) == {o \in Workers \ {w} : wpc[o] # "idle" /\ wtag[o] = t}

\* The call itself: the empty tag returns at once (lines 74-76), any other
\* tag goes on to db.Update.
IsReplayCall(w, t) ==
    /\ ~panicked
    /\ k.exists
    /\ wpc[w] = "idle"
    /\ nCalls < MaxReplayCalls
    /\ nCalls' = nCalls + 1
    /\ IF Len(t) = 0
       THEN /\ op' = [name |-> "IsReplay", ret |-> "true", tag |-> t]
            /\ RecordReturn(t, "true")
            /\ UNCHANGED <<wpc, wtag, wrace>>
       ELSE /\ op' = [name |-> "IsReplay.call", ret |-> "-", tag |-> t]
            /\ wpc' = [wpc EXCEPT ![w] = "update"]
            /\ wtag' = [wtag EXCEPT ![w] = t]
            /\ wrace' = IF firstRet[t] = "none" /\ Rivals(w, t) # {}
                         THEN [o \in Workers |->
                                 wrace[o] \/ o \in Rivals(w, t) \cup {w}]
                         ELSE wrace
            /\ UNCHANGED <<firstRet, falseRet>>
    /\ UNCHANGED <<now, reqEpoch, file, flock, k, privMem, writer, wseen,
                   panicked, raceDone, seenAtOpen, firstPub, createdHere,
                   closedByDeref, reopened, closeCount, nRef, nDeref>>

\* The counter is read and written outside a read-write transaction.
CanBeginUpdateUnlocked(w) == TRUE

\* bolt admits one read-write transaction at a time: db.Update waits while
\* another one is open.
CanBeginUpdate(w) == writer = 0

\* The counter read back from the bucket (lines 81, 93-95).
StoredCount(f, t) ==
    LET b == f.replay[t] IN
    IF b # Absent /\ Len(b[1]) = Uint64Len THEN Uint64(b[1]) ELSE ZeroUint64

\* db.Update begins the transaction and the closure reads the counter.  On a
\* closed key k.db is nil and the call faults.
UpdateBegin(w) ==
    /\ ~panicked
    /\ wpc[w] = "update"
    /\ IF ~k.db
       THEN /\ panicked' = TRUE
            /\ wpc' = [wpc EXCEPT ![w] = "idle"]
            /\ wtag' = [wtag EXCEPT ![w] = EmptyTag]
            /\ wrace' = [wrace EXCEPT ![w] = FALSE]
            /\ op' = [name |-> "IsReplay", ret |-> "panic", tag |-> wtag[w]]
            /\ UNCHANGED <<writer, wseen>>
       ELSE /\ CanBeginUpdate(w)
            /\ writer' = w
            /\ wseen' = [wseen EXCEPT ![w] = StoredCount(file, wtag[w])]
            /\ wpc' = [wpc EXCEPT ![w] = "intx"]
            /\ op' = [name |-> "IsReplay.begin", ret |-> "-", tag |-> wtag[w]]
            /\ UNCHANGED <<panicked, wtag, wrace>>
    /\ UNCHANGED <<now, reqEpoch, file, flock, k, privMem, firstRet,
                   falseRet, raceDone, seenAtOpen, firstPub, createdHere,
                   closedByDeref, reopened, closeCount, nRef, nDeref, nCalls>>

\* seenCount++ without the saturation: the counter wraps to 0.
NextCountWrapping(c) == IncLimbs(c)

\* seenCount++ with the saturation of lines 96-99.
NextCount(c) ==
    LET c1 == IncLimbs(c) IN IF c1 = ZeroUint64 THEN MaxUint64 ELSE c1

\* The verdict of line 110.
ReplayVerdict(c) == c # U64(1)

\* The closure writes the counter back, the transaction commits and IsReplay
\* returns.
UpdateCommit(w) ==
    LET t == wtag[w]
        c == NextCount(wseen[w])
        r == IF ReplayVerdict(c) THEN "true" ELSE "false"
    IN
    /\ ~panicked
    /\ wpc[w] = "intx"
    /\ file' = [file EXCEPT !.replay[t] = Present(PutUint64(c))]
    /\ writer' = 0
    /\ wseen' = [wseen EXCEPT ![w] = ZeroUint64]
    /\ wtag' = [wtag EXCEPT ![w] = EmptyTag]
    /\ wpc' = [wpc EXCEPT ![w] = "idle"]
    /\ op' = [name |-> "IsReplay", ret |-> r, tag |-> t]
    /\ RecordReturn(t, r)
    /\ wrace' = [wrace EXCEPT ![w] = FALSE]
    /\ raceDone' = IF wrace[w] /\ raceDone[t] < 2
                    THEN [raceDone EXCEPT ![t] = @ + 1] ELSE raceDone
    /\ UNCHANGED <<now, reqEpoch, flock, k, privMem, panicked,
                   seenAtOpen, firstPub, createdHere, closedByDeref, reopened,
                   closeCount, nRef, nDeref, nCalls>>

(***************************************************************************)
(* Ref, Deref and forceClose (lines 115-156).                              *)
(***************************************************************************)
\* The expiry test without the owner's flag.
ShouldUnlinkUnasked(key, epoch) == LtLimbs(key.epoch, DecLimbs(epoch))

\* The test of line 143; epoch-1 is uint64 arithmetic.
ShouldUnlink(key, epoch) ==
    key.unlinkIfExpired /\ LtLimbs(key.epoch, DecLimbs(epoch))

\* forceClose on the key with its refcount already decremented.
ForceClose(key) ==
    /\ k' = [key EXCEPT !.db = FALSE, !.keypair = FALSE]
    /\ flock' = IF key.db THEN FALSE ELSE flock
    /\ closeCount' = IF closeCount < 2 THEN closeCount + 1 ELSE closeCount
    /\ privMem' = IF key.keypair THEN ZeroKey ELSE privMem
    /\ IF key.db /\ ShouldUnlink(key, now)
       THEN \* os.Remove: the file and all it recorded are gone.
            /\ file' = NoFile
            /\ firstRet' = [t \in Tags |-> "none"]
            /\ falseRet' = [t \in Tags |-> 0]
            /\ raceDone' = [t \in Tags |-> 0]
            /\ seenAtOpen' = {}
            /\ firstPub' = NoPub
            /\ createdHere' = FALSE
            /\ closedByDeref' = FALSE
            /\ reopened' = FALSE
            /\ nCalls' = 0
       ELSE /\ closedByDeref' = (closedByDeref \/ key.db)
            /\ UNCHANGED <<file, firstRet, falseRet, raceDone, seenAtOpen,
                           firstPub, createdHere, reopened, nCalls>>

\* Deref closes the key while one reference is still held.
DerefClosesEarly(i) == i = 1

\* The tests of lines 117 and 119.
DerefCloses(i) == i = 0
DerefPanics(i) == i < 0

\* Ref accepts a count that was zero.
RefPanicsLate(i) == i < 1

\* The test of line 127.
RefPanics(i) == i <= 1

Deref ==
    LET i == k.refCount - 1
        key == [k EXCEPT !.refCount = i]
    IN
    /\ ~panicked
    /\ k.exists
    \* db.Close() waits for the open transaction to finish.
    /\ (DerefCloses(i) /\ k.db) => writer = 0
    /\ IF DerefCloses(i)
       THEN /\ ForceClose(key)
            /\ nDeref' = nDeref + 1
            /\ op' = [name |-> "Deref", ret |-> "closed", tag |-> EmptyTag]
            /\ UNCHANGED panicked
       ELSE /\ k' = key
            /\ panicked' = DerefPanics(i)
            /\ nDeref' = IF DerefPanics(i) THEN nDeref ELSE nDeref + 1
            /\ op' = [name |-> "Deref", ret |-> IF DerefPanics(i) THEN "panic" ELSE "ok",
                      tag |-> EmptyTag]
            /\ UNCHANGED <<file, flock, privMem, closeCount, firstRet, falseRet,
                           raceDone, seenAtOpen, firstPub, createdHere,
                           closedByDeref, reopened, nCalls>>
    /\ UNCHANGED <<now, reqEpoch, writer, wpc, wtag, wseen, wrace, nRef>>

Ref ==
    LET i == k.refCount + 1 IN
    /\ ~panicked
    /\ k.exists
    /\ nRef < MaxRefCalls
    /\ k' = [k EXCEPT !.refCount = i]
    /\ panicked' = RefPanics(i)
    /\ nRef' = IF RefPanics(i) THEN nRef ELSE nRef + 1
    /\ op' = [name |-> "Ref", ret |-> IF RefPanics(i) THEN "panic" ELSE "ok",
              tag |-> EmptyTag]
    /\ UNCHANGED <<now, reqEpoch, file, flock, privMem, writer, wpc, wtag, wseen, wrace,
                   firstRet, falseRet, raceDone, seenAtOpen, firstPub,
                   createdHere, closedByDeref, reopened, closeCount, nDeref,
                   nCalls>>

\* SetUnlinkIfExpired (lines 51-53).
SetUnlinkIfExpired(b) ==
    /\ ~panicked
    /\ k.exists
    /\ k.unlinkIfExpired # b
    /\ k' = [k EXCEPT !.unlinkIfExpired = b]
    /\ op' = [name |-> "SetUnlinkIfExpired", ret |-> "-", tag |-> EmptyTag]
    /\ UNCHANGED <<now, reqEpoch, file, flock, privMem, writer, wpc, wtag, wseen, wrace,
                   panicked, firstRet, falseRet, raceDone, seenAtOpen, firstPub,
                   createdHere, closedByDeref, reopened, closeCount, nRef,
                   nDeref, nCalls>>

(***************************************************************************)
(* The environment: the clock and the process.                             *)
(***************************************************************************)
\* epochtime.Now() moves to the next epoch.
Tick ==
    /\ LtLimbs(now, U64(MaxEpoch))
    /\ now' = IncLimbs(now)
    /\ op' = [name |-> "Tick", ret |-> "-", tag |-> EmptyTag]
    /\ UNCHANGED <<reqEpoch, file, flock, k, privMem, writer, wpc, wtag, wseen, wrace,
                   panicked, firstRet, falseRet, raceDone, seenAtOpen, firstPub,
                   createdHere, closedByDeref, reopened, closeCount, nRef,
                   nDeref, nCalls>>

\* The process ends (after a panic, or killed) and a new one starts: every
\* object in memory is gone, the open transaction is rolled back, the file
\* lock is released and the file stays as last committed.
Restart ==
    /\ k.exists \/ panicked \/ flock
    /\ k' = NoMixKey
    /\ privMem' = NoKey
    /\ flock' = FALSE
    /\ writer' = 0
    /\ wpc' = [w \in Workers |-> "idle"]
    /\ wtag' = [w \in Workers |-> EmptyTag]
    /\ wseen' = [w \in Workers |-> ZeroUint64]
    /\ wrace' = [w \in Workers |-> FALSE]
    /\ panicked' = FALSE
    /\ closeCount' = 0
    /\ nRef' = 0
    /\ nDeref' = 0
    /\ reopened' = FALSE
    /\ op' = [name |-> "Restart", ret |-> "-", tag |-> EmptyTag]
    /\ UNCHANGED <<now, reqEpoch, file, firstRet, falseRet, raceDone,
                   seenAtOpen, firstPub, createdHere, closedByDeref, nCalls>>

(***************************************************************************)
(* The PKI cache and the authentication of peers (pki.go).                 *)
(* Durations are in minutes.                                               *)
(***************************************************************************)
\* epochtime.Period, the length of an epoch.
Period == 60
pkiEarlyConnectSlack == 30
pkiLateConnectSlack == 3
earlySendSlack == 2
lateSendSlack == 2
nextFetchTill == 45
\* constants.NodeIDLength.
NodeIDLength == 32

\* The time left in the epoch, the third value of epochtime.Now().
Till == Period - elapsed

\* The clock readings of the model: the first minute of the epoch, the
\* minutes on either side of every threshold the code compares elapsed
\* (lines 592, 633) or till (lines 530, 588, 627) with, and the minute after
\* the late connect slack has passed.
ElapsedThresholds == {pkiLateConnectSlack, lateSendSlack}
TillThresholds == {pkiEarlyConnectSlack, earlySendSlack, nextFetchTill}
ElapsedReadings ==
    {e \in 0..(Period - 1) :
        \/ e = 0
        \/ \E t \in ElapsedThresholds : e \in {t - 1, t}
        \/ e = pkiLateConnectSlack + 1
        \/ \E t \in TillThresholds : Period - e \in {t - 1, t}}

\* Node ids and link keys.
NodeId(n) == [i \in 1..NodeIDLength |-> n]
PeerIds == {NodeId(p) : p \in 1..NumPeers}
LinkKeys == {<<1>>, <<2>>}
\* AdditionalData that is no node id: too short.
ShortId == <<1>>
\* AdditionalData that is no node id: a node id followed by one more byte.
LongId == NodeId(1) \o <<1>>

\* A descriptor map holds, per node id, <<>> or <<link key>>.
DescMaps == [PeerIds -> {Absent} \cup {Present(l) : l \in LinkKeys}]
Lookup(m, id) == IF id \in DOMAIN m THEN m[id] ELSE Absent

\* The epochs a cache entry can be stored for.
CacheEpochs == {U64(n) : n \in 0..(MaxEpoch + 1)}

NoDoc == [present |-> FALSE, epoch |-> ZeroUint64,
          incoming |-> [id \in PeerIds |-> Absent],
          outgoing |-> [id \in PeerIds |-> Absent]]

\* The entry newPKICacheEntry builds from the document fetched for epoch e
\* (lines 339-383), with the given peers before and after us.
CacheEntry(e, inc, out) ==
    [present |-> TRUE, epoch |-> e, incoming |-> inc, outgoing |-> out]

\* p.docs[e].
DocAt(ds, e) == IF e \in DOMAIN ds THEN ds[e] ELSE NoDoc

NoAuth == [kind |-> "none", ad |-> <<>>, pk |-> <<>>, canSend |-> FALSE,
           isValid |-> FALSE, queued |-> FALSE]

PkiStart ==
    /\ elapsed = 0
    /\ docs = [e \in CacheEpochs |-> NoDoc]
    /\ disableMixAuth \in BOOLEAN
    /\ implSet \in BOOLEAN
    /\ authRet = NoAuth

\* The PKI is not in use.
PkiIdle ==
    /\ elapsed = 0
    /\ docs = [e \in CacheEpochs |-> NoDoc]
    /\ disableMixAuth = FALSE
    /\ implSet = FALSE
    /\ authRet = NoAuth

\* A documentsToFetch that asks for the next epoch's document at any time.
DocumentsToFetchAnyTime(ds, n, till) ==
    (IF ~DocAt(ds, n).present THEN <<n>> ELSE <<>>)
    \o (IF ~DocAt(ds, IncLimbs(n)).present THEN <<IncLimbs(n)>> ELSE <<>>)

\* documentsToFetch (lines 514-537).
DocumentsToFetch(ds, n, till) ==
    (IF ~DocAt(ds, n).present THEN <<n>> ELSE <<>>)
    \o (IF till < nextFetchTill /\ ~DocAt(ds, IncLimbs(n)).present
        THEN <<IncLimbs(n)>> ELSE <<>>)

\* pruneDocuments (lines 497-512).
PruneDocuments(ds, n) ==
    [e \in DOMAIN ds |-> IF LtLimbs(e, n) THEN NoDoc ELSE ds[e]]

\* What one fetch yields: "err" (the fetch or newPKICacheEntry failed) or the
\* maps of the entry built from the document.
FetchResults ==
    {[ok |-> FALSE, incoming |-> NoDoc.incoming, outgoing |-> NoDoc.outgoing]}
    \cup {[ok |-> TRUE, incoming |-> i, outgoing |-> NoDoc.outgoing] :
            i \in DescMaps}

RECURSIVE StoreFetched(_, _, _)
\* The fetch loop of the worker (lines 462-481): res[j] is what the fetch of
\* epochs[j] yields.
StoreFetched(ds, epochs, res) ==
    IF epochs = <<>> THEN ds
    ELSE LET e == Head(epochs)
             r == Head(res)
             ds1 == IF r.ok /\ e \in DOMAIN ds
                    THEN [ds EXCEPT ![e] = CacheEntry(e, r.incoming, r.outgoing)]
                    ELSE ds
         IN StoreFetched(ds1, Tail(epochs), Tail(res))

\* One round of the worker's loop (lines 460-488), the client answering
\* each fetch with one of the given results.
WorkerRound(results) ==
    /\ implSet
    /\ authRet = NoAuth
    /\ LET epochs == DocumentsToFetch(docs, now, Till) IN
       \E res \in [1..Len(epochs) -> results] :
          LET stored == StoreFetched(docs, epochs, res)
              didUpdate == \E j \in 1..Len(epochs) : res[j].ok
          IN docs' = IF didUpdate THEN PruneDocuments(stored, now) ELSE stored
    /\ UNCHANGED <<now, elapsed, disableMixAuth, implSet, authRet, mixRest>>

\* A round in which the documents list peers of the layer before ours.
WorkerCycle == WorkerRound(FetchResults)

\* What one fetch yields when the documents list peers of the layer after
\* ours.
OutgoingFetchResults ==
    {[ok |-> FALSE, incoming |-> NoDoc.incoming, outgoing |-> NoDoc.outgoing]}
    \cup {[ok |-> TRUE, incoming |-> NoDoc.incoming, outgoing |-> o] :
            o \in DescMaps}

\* A round in which the documents list peers of the layer after ours.
WorkerCycleOutgoing == WorkerRound(OutgoingFetchResults)

\* What one fetch yields when the documents list peers on both sides of our
\* layer: a node is in the layer before ours, in the layer after ours or in
\* neither, and is listed under the first link key.
BothFetchResults ==
    {[ok |-> FALSE, incoming |-> NoDoc.incoming, outgoing |-> NoDoc.outgoing]}
    \cup {[ok |-> TRUE,
            incoming |-> [id \in PeerIds |->
                IF side[id] = "before" THEN Present(<<1>>) ELSE Absent],
            outgoing |-> [id \in PeerIds |->
                IF side[id] = "after" THEN Present(<<1>>) ELSE Absent]] :
            side \in [PeerIds -> {"none", "before", "after"}]}

\* A round of a mix of a middle layer.
WorkerCycleBoth == WorkerRound(BothFetchResults)

\* A search that looks at the next epoch's document at any time.
SearchEpochsAlwaysNext(n, el, till) == <<n, IncLimbs(n)>>

\* A search that never looks at the previous epoch's document.
SearchEpochsNoLate(n, el, till) ==
    <<n>> \o (IF till < pkiEarlyConnectSlack THEN <<IncLimbs(n)>> ELSE <<>>)

\* The epochs searched for a peer (lines 586-596, 555-565).
SearchEpochs(n, el, till) ==
    <<n>> \o (IF till < pkiEarlyConnectSlack THEN <<IncLimbs(n)>>
              ELSE IF el < pkiLateConnectSlack THEN <<DecLimbs(n)>>
              ELSE <<>>)

RECURSIVE DocsForEpochs(_, _)
\* docsForEpochs (lines 539-550).
DocsForEpochs(ds, epochs) ==
    IF epochs = <<>> THEN <<>>
    ELSE (IF DocAt(ds, Head(epochs)).present
          THEN <<DocAt(ds, Head(epochs))>> ELSE <<>>)
         \o DocsForEpochs(ds, Tail(epochs))

\* A comparison that accepts any presented key.
LinkKeyMatchesAny(linkKey, pk) == TRUE

\* bytes.Equal(m.LinkKey.Bytes(), c.PublicKey.Bytes()) (line 611).
LinkKeyMatches(linkKey, pk) == linkKey = pk

\* A switch without the grace windows around the epoch transition.
CanSendIncomingNoGrace(docEpoch, n, el, till) == docEpoch = n

\* The switch of lines 622-639: the entry lets the peer send.
CanSendIncoming(docEpoch, n, el, till) ==
    IF docEpoch = n THEN TRUE
    ELSE IF docEpoch = IncLimbs(n) THEN till < earlySendSlack
    ELSE IF docEpoch = DecLimbs(n) THEN el < lateSendSlack
    ELSE FALSE

RECURSIVE IncomingLoop(_, _, _, _, _, _, _)
\* The loop of lines 606-646 over the entries found.
IncomingLoop(ds, id, pk, n, el, till, isValid) ==
    IF ds = <<>> THEN [canSend |-> FALSE, isValid |-> isValid]
    ELSE LET d == Head(ds)
             m == Lookup(d.incoming, id)
         IN IF m = Absent
            THEN IncomingLoop(Tail(ds), id, pk, n, el, till, isValid)
            ELSE IF ~LinkKeyMatches(m[1], pk)
            THEN IncomingLoop(Tail(ds), id, pk, n, el, till, isValid)
            ELSE IF CanSendIncoming(d.epoch, n, el, till)
            THEN [canSend |-> TRUE, isValid |-> TRUE]
            ELSE IncomingLoop(Tail(ds), id, pk, n, el, till, TRUE)

\* copy(id[:], c.AdditionalData) (lines 603-604, 658-659): the first
\* NodeIDLength bytes, padded with zeros.
CopyId(ad) == [i \in 1..NodeIDLength |-> IF i <= Len(ad) THEN ad[i] ELSE 0]

\* An authentication that copies the additional data into the id without
\* looking at its length.
AuthenticateIncomingAnyLength(ad, pk) ==
    IF disableMixAuth THEN [canSend |-> TRUE, isValid |-> TRUE]
    ELSE IncomingLoop(DocsForEpochs(docs, SearchEpochs(now, elapsed, Till)),
                      CopyId(ad), pk, now, elapsed, Till, FALSE)

\* authenticateIncoming (lines 570-647).
AuthenticateIncoming(ad, pk) ==
    IF disableMixAuth THEN [canSend |-> TRUE, isValid |-> TRUE]
    ELSE IF Len(ad) # NodeIDLength THEN [canSend |-> FALSE, isValid |-> FALSE]
    ELSE IncomingLoop(DocsForEpochs(docs, SearchEpochs(now, elapsed, Till)),
                      ad, pk, now, elapsed, Till, FALSE)

\* A peer connects and is authenticated: the verdict is handed to the
\* session that asked.
AuthIncoming(ad, pk) ==
    /\ authRet = NoAuth
    /\ LET r == AuthenticateIncoming(ad, pk) IN
       authRet' = [kind |-> "incoming", ad |-> ad, pk |-> pk,
                   canSend |-> r.canSend, isValid |-> r.isValid,
                   queued |-> FALSE]
    /\ UNCHANGED <<now, elapsed, docs, disableMixAuth, implSet, mixRest>>

\* The session has taken the verdict.
AuthDone ==
    /\ authRet # NoAuth
    /\ authRet' = NoAuth
    /\ UNCHANGED <<now, elapsed, docs, disableMixAuth, implSet, mixRest>>

\* The successor of a clock reading among the readings of the model.
LaterReadings == {e \in ElapsedReadings : e > elapsed}
Min(S) == CHOOSE x \in S : \A y \in S : x <= y

\* Time passes: the clock shows the next reading.
ClockForward ==
    /\ authRet = NoAuth
    /\ IF LaterReadings # {}
       THEN /\ elapsed' = Min(LaterReadings)
            /\ now' = now
       ELSE /\ LtLimbs(now, U64(MaxEpoch))
            /\ elapsed' = 0
            /\ now' = IncLimbs(now)
    /\ UNCHANGED <<docs, disableMixAuth, implSet, authRet, mixRest>>

\* The wall clock is set back within the epoch.
ClockBack ==
    /\ authRet = NoAuth
    /\ \E e \in ElapsedReadings : e < elapsed /\ elapsed' = e
    /\ UNCHANGED <<now, docs, disableMixAuth, implSet, authRet, mixRest>>

(***************************************************************************)
(* Outgoing peers and forward destinations (pki.go).                       *)
(***************************************************************************)
\* The epochs docsForOutgoing asks for (lines 555-565).
OutgoingEpochs(n, el, till) ==
    <<n>> \o (IF till < pkiEarlyConnectSlack THEN <<IncLimbs(n)>>
              ELSE IF el < pkiLateConnectSlack THEN <<DecLimbs(n)>>
              ELSE <<>>)

\* An outgoing check with the grace window of the incoming one.
CanSendOutgoingWithGrace(docEpoch, n, el, till) ==
    CanSendIncoming(docEpoch, n, el, till)

\* The test of line 684: the entry lets us send to the peer.
CanSendOutgoing(docEpoch, n, el, till) == docEpoch = n

RECURSIVE OutgoingLoop(_, _, _, _, _, _, _)
\* The loop of lines 662-691 over the entries found.
OutgoingLoop(ds, id, pk, n, el, till, isValid) ==
    IF ds = <<>> THEN [canSend |-> FALSE, isValid |-> isValid]
    ELSE LET d == Head(ds)
             m == Lookup(d.outgoing, id)
         IN IF m = Absent
            THEN OutgoingLoop(Tail(ds), id, pk, n, el, till, isValid)
            ELSE IF ~LinkKeyMatches(m[1], pk)
            THEN OutgoingLoop(Tail(ds), id, pk, n, el, till, isValid)
            ELSE IF CanSendOutgoing(d.epoch, n, el, till)
            THEN [canSend |-> TRUE, isValid |-> TRUE]
            ELSE OutgoingLoop(Tail(ds), id, pk, n, el, till, TRUE)

\* authenticateOutgoing (lines 649-692), without the descriptor it returns
\* along with the verdict.
AuthenticateOutgoing(ad, pk) ==
    IF disableMixAuth THEN [canSend |-> TRUE, isValid |-> TRUE]
    ELSE OutgoingLoop(DocsForEpochs(docs, OutgoingEpochs(now, elapsed, Till)),
                      CopyId(ad), pk, now, elapsed, Till, FALSE)

\* We connect to a peer and authenticate it.
AuthOutgoing(ad, pk) ==
    /\ authRet = NoAuth
    /\ LET r == AuthenticateOutgoing(ad, pk) IN
       authRet' = [kind |-> "outgoing", ad |-> ad, pk |-> pk,
                   canSend |-> r.canSend, isValid |-> r.isValid,
                   queued |-> FALSE]
    /\ UNCHANGED <<now, elapsed, docs, disableMixAuth, implSet, mixRest>>

\* A check that accepts a destination listed in any cached document.
IsValidForwardDestAnyEpoch(id) ==
    \/ disableMixAuth
    \/ \E e \in CacheEpochs :
          DocAt(docs, e).present /\ Lookup(DocAt(docs, e).outgoing, id) # Absent

\* isValidForwardDest (lines 712-731).
IsValidForwardDest(id) ==
    IF disableMixAuth THEN TRUE
    ELSE IF ~DocAt(docs, now).present THEN FALSE
    ELSE Lookup(DocAt(docs, now).outgoing, id) # Absent

\* Step 4 of the crypto worker: a forward-routed packet is handed to the
\* scheduler if the PKI finds its next hop valid, and dropped otherwise.
HandedToScheduler(valid) == valid

\* A packet unwraps to next hop id.
ForwardPacket(id) ==
    /\ authRet = NoAuth
    /\ LET r == IsValidForwardDest(id) IN
       authRet' = [kind |-> "forward", ad |-> id, pk |-> <<>>,
                   canSend |-> FALSE, isValid |-> r,
                   queued |-> HandedToScheduler(r)]
    /\ UNCHANGED <<now, elapsed, docs, disableMixAuth, implSet, mixRest>>

(***************************************************************************)
(* Building a cache entry from a PKI document (pki.go, lines 297-383).     *)
(***************************************************************************)
VARIABLES
    fetched,    \* the document handed to newPKICacheEntry, with the
                \* server's configuration
    entry       \* what newPKICacheEntry returned for it

entVars == <<fetched, entry>>

\* cpki.LayerProvider, the layer of the providers.
LayerProvider == 255
\* The number of values of a uint8.
Uint8Range == 256
Uint8(x) == x % Uint8Range

\* The numbers of topology layers of the documents of the model: small
\* ones, and those around the largest layer index a uint8 holds.
LayerCounts == (1..MaxLayers) \cup {Uint8Range - 1, Uint8Range, Uint8Range + 1}

\* The layers of a topology of len layers that hold nodes in the model: the
\* first two and the last two.
PopulatedLayers(len) == {l \in {0, 1, len - 2, len - 1} : l >= 0 /\ l < len}

\* Where a document can list a peer: nowhere, among the providers, or in a
\* populated topology layer.  A topology layer is named by its index.
NotListed == 1000
AmongProviders == 1001
Places(len) == {NotListed, AmongProviders} \cup PopulatedLayers(len)

\* The peers, by number; peer p has the node id NodeId(p).
PeerNumbers == 1..NumPeers

\* GetNodeByKey finds no descriptor with our identity key.
NoSelf == [found |-> FALSE, layer |-> 0, nameOk |-> FALSE]

\* Our own descriptor: the Layer it states, and whether its Name is our
\* configured identifier.
SelfDescriptors(len) ==
    {NoSelf} \cup
    [found : {TRUE}, layer : PopulatedLayers(len) \cup {LayerProvider},
     nameOk : BOOLEAN]

\* The documents of the model: the number of topology layers (0 for a
\* document without Topology), where each peer is listed, and our own
\* descriptor.
Documents ==
    UNION {[len : {len}, place : [PeerNumbers -> Places(len)],
            self : SelfDescriptors(len)] : len \in LayerCounts}
    \cup [len : {0}, place : [PeerNumbers -> {NotListed, AmongProviders}],
          self : {NoSelf, [found |-> TRUE, layer |-> LayerProvider,
                           nameOk |-> TRUE]}]

NoDocument == [len |-> 0, place |-> [p \in PeerNumbers |-> NotListed],
               self |-> NoSelf]

\* len(e.doc.Topology[layer]) members, resp. e.doc.Providers (lines 366-372).
NodesOfLayer(d, layer) ==
    IF layer = LayerProvider
    THEN {p \in PeerNumbers : d.place[p] = AmongProviders}
    ELSE {p \in PeerNumbers : d.place[p] = layer}

\* A check that finds every layer sane.
IsOurLayerSaneAlways(d, isProvider) == TRUE

\* isOurLayerSane (lines 304-317).
IsOurLayerSane(d, isProvider) ==
    IF isProvider /\ d.self.layer # LayerProvider THEN FALSE
    ELSE IF ~isProvider /\ d.self.layer = LayerProvider THEN FALSE
    ELSE IF ~isProvider /\ d.self.layer >= d.len THEN FALSE
    ELSE TRUE

\* incomingLayer (lines 319-327), in uint8 arithmetic.
IncomingLayer(d) ==
    IF d.self.layer = LayerProvider THEN Uint8(Uint8(d.len) + Uint8Range - 1)
    ELSE IF d.self.layer = 0 THEN LayerProvider
    ELSE Uint8(d.self.layer + Uint8Range - 1)

\* outgoingLayer (lines 329-337): the switch is on int(e.self.Layer), the
\* result a uint8.
OutgoingLayer(d) ==
    IF d.self.layer = d.len - 1 THEN LayerProvider
    ELSE IF d.self.layer = LayerProvider THEN 0
    ELSE Uint8(d.self.layer + 1)

\* e.doc.Topology[layer] (line 371) faults: layer is no index of the
\* topology.
BuildMapPanics(d, layer) == layer # LayerProvider /\ layer >= d.len

\* buildMap (lines 365-378): the map of the nodes of a layer.
BuildMap(d, layer) ==
    [id \in PeerIds |->
        IF \E p \in NodesOfLayer(d, layer) : id = NodeId(p)
        THEN Present(<<1>>) ELSE Absent]

\* What newPKICacheEntry can return or do.
EntryError == [kind |-> "err", ent |-> NoDoc]
EntryPanic == [kind |-> "panic", ent |-> NoDoc]
NoEntry == [kind |-> "none", ent |-> NoDoc]

\* newPKICacheEntry (lines 339-383).
NewPKICacheEntry(d, isProvider) ==
    IF ~d.self.found THEN EntryError
    ELSE IF d.len = 0 THEN EntryError
    ELSE IF ~d.self.nameOk THEN EntryError
    ELSE IF ~IsOurLayerSane(d, isProvider) THEN EntryError
    ELSE IF \/ BuildMapPanics(d, IncomingLayer(d))
            \/ BuildMapPanics(d, OutgoingLayer(d))
    THEN EntryPanic
    ELSE [kind |-> "ok",
          ent |-> CacheEntry(ZeroUint64, BuildMap(d, IncomingLayer(d)),
                             BuildMap(d, OutgoingLayer(d)))]

EntryIdle ==
    /\ fetched = [doc |-> NoDocument, isProvider |-> FALSE]
    /\ entry = NoEntry

\* The worker hands a fetched document to newPKICacheEntry (line 472).
BuildEntry(d, isProvider) ==
    /\ fetched' = [doc |-> d, isProvider |-> isProvider]
    /\ entry' = NewPKICacheEntry(d, isProvider)

(***************************************************************************)
(* The server: New, Shutdown and halt (server.go), and the life of the     *)
(* PKI worker they start and stop (pki.go, lines 398-458).                 *)
(***************************************************************************)
VARIABLES
    cfg,        \* the configuration New is given
    srv,        \* the fields of the Server
    newPc,      \* where New is
    newRet,     \* what New returns
    once,       \* s.haltOnce
    cpc,        \* where each caller of Shutdown is
    hpc,        \* where halt is: 0 not running, else its step
    haltLog,    \* the components halted so far, in order
    haltRuns,   \* how many times halt has been entered
    built,      \* the components New has constructed
    crashed,    \* a panic has left New or Shutdown
    wk,         \* where the PKI worker is
    timer,      \* the worker's timer
    haltClosed  \* p.haltCh is closed

srvVars == <<cfg, srv, newPc, newRet, once, cpc, hpc, haltLog, haltRuns,
             built, crashed, wk, timer, haltClosed>>

\* The callers of Shutdown: 0 is New's deferred call.
Callers == 0..NumCallers
NoCaller == NumCallers + 1

Configs ==
    [generateOnly : BOOLEAN,    \* cfg.Debug.GenerateOnly
     isProvider : BOOLEAN,      \* cfg.Server.IsProvider
     earlyFail : BOOLEAN,       \* a step before line 256 fails
     failAt : 0..NumAddresses]  \* the address whose listener fails, or 0

\* new(Server): every field is zero.
NewServer ==
    [periodic |-> "nil", listeners |-> <<>>, connector |-> "nil",
     cryptoWorkers |-> <<>>, scheduler |-> "nil", pki |-> "nil",
     mixKeys |-> "nil", inboundPackets |-> "nil", linkKey |-> "nil",
     identityKey |-> "nil", persisted |-> FALSE]

SrvStart ==
    /\ cfg \in Configs
    /\ srv = NewServer
    /\ newPc = "init"
    /\ newRet = "none"
    /\ once = [done |-> FALSE, runner |-> NoCaller]
    /\ cpc = [c \in Callers |-> "idle"]
    /\ hpc = 0
    /\ haltLog = <<>>
    /\ haltRuns = 0
    /\ built = {}
    /\ crashed = FALSE
    /\ wk = "none"
    /\ timer = "none"
    /\ haltClosed = FALSE

\* No server is being constructed.
SrvIdle ==
    /\ SrvStart
    /\ cfg = [generateOnly |-> FALSE, isProvider |-> FALSE,
              earlyFail |-> FALSE, failAt |-> 0]

\* New up to the mix keys (lines 216-254): the data directory, logging,
\* the identity and link keys and the mix keys; a failure here returns the
\* error at once.
NewEarly ==
    /\ newPc = "init" /\ ~crashed
    /\ IF cfg.earlyFail
       THEN /\ newPc' = "returned"
            /\ newRet' = "err"
            /\ UNCHANGED <<srv, built>>
       ELSE /\ srv' = [srv EXCEPT !.identityKey = "set", !.linkKey = "set",
                                  !.mixKeys = "running", !.persisted = TRUE]
            /\ built' = built \cup {"mixKeys"}
            /\ newPc' = "construct"
            /\ newRet' = newRet
    /\ UNCHANGED <<cfg, once, cpc, hpc, haltLog, haltRuns, crashed, wk, timer,
                   haltClosed>>

\* New from the GenerateOnly test to the start of the PKI worker
\* (lines 256-292).
NewConstruct ==
    /\ newPc = "construct" /\ ~crashed
    /\ IF cfg.generateOnly
       THEN /\ newRet' = "ErrGenerateOnly"
            /\ newPc' = "deferred"
            /\ UNCHANGED <<srv, built, wk>>
       ELSE IF cfg.isProvider
       THEN /\ srv' = [srv EXCEPT !.pki = "running"]
            /\ built' = built \cup {"pki"}
            /\ newRet' = "errNotImplemented"
            /\ newPc' = "deferred"
            /\ wk' = wk
       ELSE /\ srv' = [srv EXCEPT
                         !.pki = "running", !.scheduler = "running",
                         !.inboundPackets = "open",
                         !.cryptoWorkers =
                             [i \in 1..NumSphinxWorkers |-> "running"],
                         !.connector = "running"]
            /\ built' = built \cup {"pki", "scheduler", "inboundPackets",
                                    "cryptoWorkers", "connector"}
            /\ wk' = "entry"
            /\ newPc' = "listeners"
            /\ newRet' = newRet
    /\ UNCHANGED <<cfg, once, cpc, hpc, haltLog, haltRuns, crashed, timer,
                   haltClosed>>

\* New from the listeners to its return (lines 294-309).
NewListeners ==
    /\ newPc = "listeners" /\ ~crashed
    /\ IF cfg.failAt >= 1
       THEN /\ srv' = [srv EXCEPT !.listeners =
                                     [i \in 1..(cfg.failAt - 1) |-> "running"]]
            /\ built' = built \cup (IF cfg.failAt > 1 THEN {"listeners"} ELSE {})
            /\ newRet' = "errListener"
            /\ newPc' = "deferred"
       ELSE /\ srv' = [srv EXCEPT !.listeners =
                                     [i \in 1..NumAddresses |-> "running"],
                                  !.periodic = "running"]
            /\ built' = built \cup {"listeners", "periodic"}
            /\ newRet' = "ok"
            /\ newPc' = "returned"
    /\ UNCHANGED <<cfg, once, cpc, hpc, haltLog, haltRuns, crashed, wk, timer,
                   haltClosed>>

\* sync.Once lets every caller in.
OnceAdmitsAll(c) == TRUE

\* sync.Once: the caller runs the function if no call has run or is
\* running it.
OnceAdmits(c) == ~once.done /\ once.runner = NoCaller

\* Shutdown (lines 143-145) is called: by New's deferred function after a
\* late failure (caller 0, lines 258-264), or by an owner of the Server New
\* returned.
ShutdownCall(c) ==
    /\ ~crashed
    /\ cpc[c] = "idle"
    /\ IF c = 0 THEN newPc = "deferred"
       ELSE newPc = "returned" /\ newRet = "ok"
    /\ IF OnceAdmits(c)
       THEN /\ once' = [once EXCEPT !.runner = c]
            /\ cpc' = [cpc EXCEPT ![c] = "halting"]
            /\ hpc' = 1
            /\ haltRuns' = haltRuns + 1
       ELSE /\ cpc' = [cpc EXCEPT ![c] = IF once.done THEN "returned"
                                        ELSE "blocked"]
            /\ UNCHANGED <<once, hpc, haltRuns>>
    /\ UNCHANGED <<cfg, srv, newPc, newRet, haltLog, built, crashed, wk, timer,
                   haltClosed>>

\* A caller that waited for the running halt returns.
ShutdownUnblock(c) ==
    /\ ~crashed
    /\ cpc[c] = "blocked"
    /\ once.done
    /\ cpc' = [cpc EXCEPT ![c] = "returned"]
    /\ UNCHANGED <<cfg, srv, newPc, newRet, once, hpc, haltLog, haltRuns,
                   built, crashed, wk, timer, haltClosed>>

\* New returns the error after its deferred Shutdown (line 262).
NewReturn ==
    /\ ~crashed
    /\ newPc = "deferred"
    /\ cpc[0] = "returned"
    /\ newPc' = "returned"
    /\ UNCHANGED <<cfg, srv, newRet, once, cpc, hpc, haltLog, haltRuns, built,
                   crashed, wk, timer, haltClosed>>

\* halt with the PKI torn down before the outgoing connections are closed.
HaltStepsPkiFirst ==
    <<"periodic", "listeners", "pki", "connector", "cryptoWorkers",
      "scheduler", "mixKeys", "top">>

\* The steps of halt, in the order of lines 154-209.
HaltSteps ==
    <<"periodic", "listeners", "connector", "cryptoWorkers", "scheduler",
      "pki", "mixKeys", "top">>

HaltAt(step) ==
    /\ ~crashed
    /\ hpc \in 1..Len(HaltSteps)
    /\ HaltSteps[hpc] = step

\* The parts of the state no step of halt touches.
haltRest == <<cfg, newRet, once, haltRuns, built, wk, timer>>

\* Lines 155-158.
HaltPeriodic ==
    /\ HaltAt("periodic")
    /\ IF srv.periodic # "nil"
       THEN /\ srv' = [srv EXCEPT !.periodic = "nil"]
            /\ haltLog' = Append(haltLog, "periodic")
       ELSE UNCHANGED <<srv, haltLog>>
    /\ hpc' = hpc + 1
    /\ UNCHANGED <<haltRest, newPc, cpc, crashed, haltClosed>>

\* Lines 161-166.
HaltListeners ==
    /\ HaltAt("listeners")
    /\ IF \E i \in DOMAIN srv.listeners : srv.listeners[i] # "nil"
       THEN /\ srv' = [srv EXCEPT !.listeners =
                                     [i \in DOMAIN srv.listeners |-> "nil"]]
            /\ haltLog' = Append(haltLog, "listeners")
       ELSE UNCHANGED <<srv, haltLog>>
    /\ hpc' = hpc + 1
    /\ UNCHANGED <<haltRest, newPc, cpc, crashed, haltClosed>>

\* Lines 169-172: the connector is halted and the field keeps it.
HaltConnector ==
    /\ HaltAt("connector")
    /\ IF srv.connector # "nil"
       THEN /\ srv' = [srv EXCEPT !.connector = "halted"]
            /\ haltLog' = Append(haltLog, "connector")
       ELSE UNCHANGED <<srv, haltLog>>
    /\ hpc' = hpc + 1
    /\ UNCHANGED <<haltRest, newPc, cpc, crashed, haltClosed>>

\* Lines 175-180.
HaltCryptoWorkers ==
    /\ HaltAt("cryptoWorkers")
    /\ IF \E i \in DOMAIN srv.cryptoWorkers : srv.cryptoWorkers[i] # "nil"
       THEN /\ srv' = [srv EXCEPT !.cryptoWorkers =
                                     [i \in DOMAIN srv.cryptoWorkers |-> "nil"]]
            /\ haltLog' = Append(haltLog, "cryptoWorkers")
       ELSE UNCHANGED <<srv, haltLog>>
    /\ hpc' = hpc + 1
    /\ UNCHANGED <<haltRest, newPc, cpc, crashed, haltClosed>>

\* Lines 183-186.
HaltScheduler ==
    /\ HaltAt("scheduler")
    /\ IF srv.scheduler # "nil"
       THEN /\ srv' = [srv EXCEPT !.scheduler = "nil"]
            /\ haltLog' = Append(haltLog, "scheduler")
       ELSE UNCHANGED <<srv, haltLog>>
    /\ hpc' = hpc + 1
    /\ UNCHANGED <<haltRest, newPc, cpc, crashed, haltClosed>>

\* Lines 194-195 and 404-406: with a PKI, pki.halt closes the halt channel
\* and begins to wait for the worker; without one the step is skipped.
HaltPkiClose ==
    /\ HaltAt("pki")
    /\ ~haltClosed
    /\ IF srv.pki # "nil"
       THEN haltClosed' = TRUE /\ hpc' = hpc
       ELSE haltClosed' = haltClosed /\ hpc' = hpc + 1
    /\ UNCHANGED <<haltRest, srv, haltLog, newPc, cpc, crashed>>

\* p.Wait() (line 406) returns when no worker is counted: none was started,
\* or the one started has returned.
WaitReturns == wk \in {"none", "done"}

\* Lines 406 and 196-197: the wait for the worker returns, and the PKI and
\* the connector are dropped.
HaltPkiWait ==
    /\ HaltAt("pki")
    /\ haltClosed
    /\ WaitReturns
    /\ srv' = [srv EXCEPT !.pki = "nil", !.connector = "nil"]
    /\ haltLog' = Append(haltLog, "pki")
    /\ hpc' = hpc + 1
    /\ UNCHANGED <<haltRest, newPc, cpc, crashed, haltClosed>>

\* Lines 201-204.
HaltMixKeys ==
    /\ HaltAt("mixKeys")
    /\ IF srv.mixKeys # "nil"
       THEN /\ srv' = [srv EXCEPT !.mixKeys = "nil"]
            /\ haltLog' = Append(haltLog, "mixKeys")
       ELSE UNCHANGED <<srv, haltLog>>
    /\ hpc' = hpc + 1
    /\ UNCHANGED <<haltRest, newPc, cpc, crashed, haltClosed>>

\* s.inboundPackets.Close() (line 207) is called on the field whatever it
\* holds: on a nil channel it dereferences nil.
ClosePanics == srv.inboundPackets = "nil"

\* Lines 207-211 and the return of Once.Do: the ingress queue is closed and
\* the keys are reset, or the close panics; either way the Once is done.  A
\* panic leaves Shutdown, and New when the call was its deferred one.
HaltTop ==
    /\ HaltAt("top")
    /\ IF ClosePanics
       THEN /\ crashed' = TRUE
            /\ cpc' = [cpc EXCEPT ![once.runner] = "panicked"]
            /\ newPc' = IF once.runner = 0 THEN "panicked" ELSE newPc
            /\ newRet' = IF once.runner = 0 THEN "panic" ELSE newRet
            /\ UNCHANGED <<srv, haltLog>>
       ELSE /\ srv' = [srv EXCEPT !.inboundPackets = "closed",
                                  !.linkKey = "reset", !.identityKey = "reset"]
            /\ haltLog' = haltLog \o <<"inboundPackets", "keys">>
            /\ cpc' = [cpc EXCEPT ![once.runner] = "returned"]
            /\ UNCHANGED <<crashed, newPc, newRet>>
    /\ hpc' = hpc + 1
    /\ once' = [once EXCEPT !.done = TRUE]
    /\ UNCHANGED <<cfg, haltRuns, built, wk, timer, haltClosed>>

\* The worker starts (lines 409-425): without a PKI client it returns at
\* once, with one it arms its timer and waits.
WorkerEnter ==
    /\ ~crashed
    /\ wk = "entry"
    /\ IF implSet
       THEN wk' = "select" /\ timer' = "armed"
       ELSE wk' = "done" /\ timer' = timer
    /\ UNCHANGED <<cfg, srv, newPc, newRet, once, cpc, hpc, haltLog, haltRuns,
                   built, crashed, haltClosed>>

\* The armed timer expires and sends on its channel.
TimerFires ==
    /\ ~crashed
    /\ timer = "armed"
    /\ timer' = "fired"
    /\ UNCHANGED <<cfg, srv, newPc, newRet, once, cpc, hpc, haltLog, haltRuns,
                   built, crashed, wk, haltClosed>>

\* The select of lines 446-453 takes the halt channel (or the context the
\* halt channel cancels) and the worker returns.
WorkerSelectHalt ==
    /\ ~crashed
    /\ wk = "select"
    /\ haltClosed
    /\ wk' = "done"
    /\ UNCHANGED <<cfg, srv, newPc, newRet, once, cpc, hpc, haltLog, haltRuns,
                   built, crashed, timer, haltClosed>>

\* The select takes the timer's channel, which empties it.
WorkerSelectTimer ==
    /\ ~crashed
    /\ wk = "select"
    /\ timer = "fired"
    /\ timer' = "received"
    /\ wk' = "stop"
    /\ UNCHANGED <<cfg, srv, newPc, newRet, once, cpc, hpc, haltLog, haltRuns,
                   built, crashed, haltClosed>>

\* timer.Stop() is true exactly for a timer that has not expired.
TimerStop == timer = "armed"

\* Lines 456-458: if Stop is false the worker receives from the timer's
\* channel, which blocks while the channel is empty.
WorkerStopTimer ==
    /\ ~crashed
    /\ wk = "stop"
    /\ IF TimerStop
       THEN wk' = "fetch" /\ timer' = "stopped"
       ELSE IF timer = "fired"
       THEN wk' = "fetch" /\ timer' = "received"
       ELSE wk' = "drain" /\ timer' = timer
    /\ UNCHANGED <<cfg, srv, newPc, newRet, once, cpc, hpc, haltLog, haltRuns,
                   built, crashed, haltClosed>>

(***************************************************************************)
(* The provider's user database (userdb/boltuserdb): a file holding one    *)
(* link key per user, as its test uses it.                                 *)
(***************************************************************************)
VARIABLES
    udbOpen,      \* a handle on the database is open
    udbFile,      \* the users bucket of the file: user -> key
    udbReopened,  \* the open handle is on a file an earlier handle closed
    udbRet,       \* the last call and what it returned
    udbAdded,     \* every pair Add has stored so far
    udbLast       \* the key each user was last added with

udbVars == <<udbOpen, udbFile, udbReopened, udbRet, udbAdded, udbLast>>

Users == 1..NumUsers
UserKeys == 1..NumKeys
NoLinkKey == 0

NoCall == [op |-> "none", user |-> 0, key |-> NoLinkKey, ret |-> FALSE]

\* No database file exists.
UdbIdle ==
    /\ udbOpen = FALSE
    /\ udbFile = [u \in Users |-> NoLinkKey]
    /\ udbReopened = FALSE
    /\ udbRet = NoCall
    /\ udbAdded = {}
    /\ udbLast = [u \in Users |-> NoLinkKey]

\* New(path): opens the file, creating it when it is missing.
UdbNew ==
    /\ ~udbOpen
    /\ udbOpen' = TRUE
    /\ udbReopened' = (udbRet.op = "Close")
    /\ udbRet' = [NoCall EXCEPT !.op = "New"]
    /\ UNCHANGED <<udbFile, udbAdded, udbLast>>

\* Add stores the key under the user, in place of a key stored before.
UdbAdd(u, lk) ==
    /\ udbOpen
    /\ udbFile' = [udbFile EXCEPT ![u] = lk]
    /\ udbRet' = [op |-> "Add", user |-> u, key |-> lk, ret |-> TRUE]
    /\ udbAdded' = udbAdded \cup {<<u, lk>>}
    /\ udbLast' = [udbLast EXCEPT ![u] = lk]
    /\ UNCHANGED <<udbOpen, udbReopened>>

\* A check that accepts any key the database knows, whoever it belongs to.
IsValidKnownKey(bkt, u, lk) == \E v \in DOMAIN bkt : bkt[v] = lk

\* is_valid(user, link_key): the user is present and the key is the user's.
IsValid(bkt, u, lk) == bkt[u] # NoLinkKey /\ bkt[u] = lk

UdbIsValid(u, lk) ==
    /\ udbOpen
    /\ udbRet' = [op |-> "IsValid", user |-> u, key |-> lk,
                  ret |-> IsValid(udbFile, u, lk)]
    /\ UNCHANGED <<udbOpen, udbFile, udbReopened, udbAdded, udbLast>>

\* Close: the handle goes, the file stays.
UdbClose ==
    /\ udbOpen
    /\ udbOpen' = FALSE
    /\ udbRet' = [NoCall EXCEPT !.op = "Close"]
    /\ UNCHANGED <<udbFile, udbReopened, udbAdded, udbLast>>

(***************************************************************************)
(* One round of the PKI worker step by step (pki.go, lines 460-512), with  *)
(* the goroutines that read the cache under its lock.                      *)
(***************************************************************************)
VARIABLES
    cpos,          \* where the worker is in its round
    pending,       \* the epochs still to fetch in this round
    updated,       \* didUpdate
    newEnt,        \* the entry built from the document just fetched
    pruneNow,      \* the epoch pruneDocuments read from the clock
    forceUpdates,  \* calls of connector.forceUpdate() in this round
    wlocked,       \* the worker holds the write lock of p
    readers,       \* the goroutines holding the read lock of p
    raced,         \* the map was written while a reader held the read lock
    canceled,      \* p.haltCh is closed and pkiCtx canceled
    lastRes,       \* how the last fetch of the round ended
    isProv         \* cfg.Server.IsProvider

rndVars == <<cpos, pending, updated, newEnt, pruneNow, forceUpdates, wlocked,
             readers, raced, canceled, lastRes, isProv>>

Readers == 1..NumReaders

\* The clock readings of the rounds: the start of the epoch and the minutes
\* on either side of nextFetchTill.
FetchReadings == {0, Period - nextFetchTill, Period - nextFetchTill + 1}

\* The documents the client returns in the rounds: every shape of document,
\* listing no peer.
FetchedDocuments ==
    {d \in Documents : \A p \in PeerNumbers : d.place[p] = NotListed}

\* What is wrong with a document for a server of the given role, in the
\* order newPKICacheEntry looks (lines 347-361): our identity key is not in
\* it, it has no topology, our descriptor's name is not our identifier, or
\* our layer does not fit our role.
EntryFailure(d, provider) ==
    IF ~d.self.found THEN "notInDocument"
    ELSE IF d.len = 0 THEN "noTopology"
    ELSE IF ~d.self.nameOk THEN "nameMismatch"
    ELSE IF provider /\ d.self.layer # LayerProvider THEN "layerInsane"
    ELSE IF ~provider /\ (d.self.layer = LayerProvider \/ d.self.layer >= d.len)
    THEN "layerInsane"
    ELSE "ok"

RoundStart ==
    /\ cpos = "wait"
    /\ pending = <<>>
    /\ updated = FALSE
    /\ newEnt = NoDoc
    /\ pruneNow = ZeroUint64
    /\ forceUpdates = 0
    /\ wlocked = FALSE
    /\ readers = {}
    /\ raced = FALSE
    /\ canceled = FALSE
    /\ lastRes = "none"
    /\ isProv \in BOOLEAN

\* No worker is running.
RoundIdle == RoundStart /\ isProv = FALSE

\* What the rounds never change.
rndFrame == <<now, elapsed, disableMixAuth, implSet, authRet, mixRest>>

\* The wait of lines 447-458 is over and the round starts with
\* documentsToFetch (lines 460-462).
RoundBegin ==
    /\ cpos = "wait"
    /\ implSet
    /\ pending' = DocumentsToFetch(docs, now, Till)
    /\ updated' = FALSE
    /\ forceUpdates' = 0
    /\ lastRes' = "none"
    /\ cpos' = IF pending' = <<>> THEN "reset" ELSE "fetch"
    /\ UNCHANGED <<docs, newEnt, pruneNow, wlocked, readers, raced, canceled,
                   isProv, rndFrame>>

\* A loop after which the cache is pruned and the connector kicked whether
\* or not a document was stored.
AfterFetchAlwaysPrunes(upd) ==
    IF Tail(pending) # <<>> THEN "fetch" ELSE "pruneLock"

\* The worker's position after the fetch of Head(pending) is dealt with:
\* the next epoch, or the end of the loop (lines 462, 482).
AfterFetch(upd) ==
    IF Tail(pending) # <<>> THEN "fetch"
    ELSE IF upd THEN "pruneLock" ELSE "reset"

\* One pass of the fetch loop up to the store (lines 463-476): the client
\* answers with an error or a document, the worker returns if it was
\* canceled meanwhile, skips the epoch on an error of the fetch or of
\* newPKICacheEntry, and else goes to store the entry.
FetchOne(getOk, d) ==
    /\ cpos = "fetch"
    /\ IF canceled
       THEN /\ cpos' = "returned"
            /\ lastRes' = IF getOk THEN "canceled" ELSE "canceledError"
            /\ UNCHANGED <<pending, newEnt>>
       ELSE IF ~getOk
       THEN /\ lastRes' = "getError"
            /\ cpos' = AfterFetch(updated)
            /\ pending' = Tail(pending)
            /\ newEnt' = newEnt
       ELSE LET r == NewPKICacheEntry(d, isProv) IN
            IF r.kind = "err"
            THEN /\ lastRes' = EntryFailure(d, isProv)
                 /\ cpos' = AfterFetch(updated)
                 /\ pending' = Tail(pending)
                 /\ newEnt' = newEnt
            ELSE IF r.kind = "panic"
            THEN /\ lastRes' = "panic"
                 /\ cpos' = "fatal"
                 /\ UNCHANGED <<pending, newEnt>>
            ELSE /\ lastRes' = EntryFailure(d, isProv)
                 /\ cpos' = "storeLock"
                 /\ newEnt' = r.ent
                 /\ pending' = pending
    /\ UNCHANGED <<docs, updated, pruneNow, forceUpdates, wlocked, readers,
                   raced, canceled, isProv, rndFrame>>

\* p.Lock() (line 477): waits until no reader holds the lock.
StoreLock ==
    /\ cpos = "storeLock"
    /\ readers = {}
    /\ wlocked' = TRUE
    /\ cpos' = "store"
    /\ UNCHANGED <<docs, pending, updated, newEnt, pruneNow, forceUpdates,
                   readers, raced, canceled, lastRes, isProv, rndFrame>>

\* p.docs[epoch] = ent; p.Unlock(); didUpdate = true (lines 478-480).
StoreInsert ==
    /\ cpos = "store"
    /\ docs' = [docs EXCEPT ![Head(pending)] =
                   CacheEntry(Head(pending), newEnt.incoming, newEnt.outgoing)]
    /\ raced' = (raced \/ (readers # {} /\ ~wlocked))
    /\ wlocked' = FALSE
    /\ updated' = TRUE
    /\ newEnt' = NoDoc
    /\ cpos' = AfterFetch(TRUE)
    /\ pending' = Tail(pending)
    /\ UNCHANGED <<pruneNow, forceUpdates, readers, canceled, lastRes, isProv,
                   rndFrame>>

\* pruneDocuments reads the clock, takes the write lock and gives it back
\* at once (lines 498-501).
PruneLock ==
    /\ cpos = "pruneLock"
    /\ readers = {}
    /\ pruneNow' = now
    /\ cpos' = "prune"
    /\ UNCHANGED <<docs, pending, updated, newEnt, forceUpdates, wlocked,
                   readers, raced, canceled, lastRes, isProv, rndFrame>>

\* The entries the loop of lines 502-511 has still to delete.
Stale(ds, n) == {e \in DOMAIN ds : ds[e].present /\ LtLimbs(e, n)}

\* delete(p.docs, epoch) (line 505), the lock not held.  When a reader
\* holds the read lock the runtime may stop the program (concurrent map
\* read and map write) or let both go on.
PruneDelete(e, stops) ==
    /\ cpos = "prune"
    /\ e \in Stale(docs, pruneNow)
    /\ docs' = [docs EXCEPT ![e] = NoDoc]
    /\ raced' = (raced \/ (readers # {} /\ ~wlocked))
    /\ cpos' = IF stops /\ readers # {} /\ ~wlocked THEN "fatal" ELSE "prune"
    /\ UNCHANGED <<pending, updated, newEnt, pruneNow, forceUpdates, wlocked,
                   readers, canceled, lastRes, isProv, rndFrame>>

\* The loop of pruneDocuments is over (line 512).
PruneDone ==
    /\ cpos = "prune"
    /\ Stale(docs, pruneNow) = {}
    /\ cpos' = "kick"
    /\ UNCHANGED <<docs, pending, updated, newEnt, pruneNow, forceUpdates,
                   wlocked, readers, raced, canceled, lastRes, isProv,
                   rndFrame>>

\* p.s.connector.forceUpdate() (line 487).
ForceUpdate ==
    /\ cpos = "kick"
    /\ forceUpdates' = forceUpdates + 1
    /\ cpos' = "reset"
    /\ UNCHANGED <<docs, pending, updated, newEnt, pruneNow, wlocked, readers,
                   raced, canceled, lastRes, isProv, rndFrame>>

\* timer.Reset(recheckInterval) (line 493), and back to the wait.
TimerReset ==
    /\ cpos = "reset"
    /\ cpos' = "wait"
    /\ UNCHANGED <<docs, pending, updated, newEnt, pruneNow, forceUpdates,
                   wlocked, readers, raced, canceled, lastRes, isProv,
                   rndFrame>>

\* pki.halt closes the halt channel, which cancels pkiCtx (lines 405,
\* 427-430).
Cancel ==
    /\ ~canceled
    /\ cpos \notin {"returned", "fatal"}
    /\ canceled' = TRUE
    /\ UNCHANGED <<docs, cpos, pending, updated, newEnt, pruneNow,
                   forceUpdates, wlocked, readers, raced, lastRes, isProv,
                   rndFrame>>

\* The select of lines 448-453 takes the halt channel.
WaitCanceled ==
    /\ cpos = "wait"
    /\ canceled
    /\ cpos' = "returned"
    /\ UNCHANGED <<docs, pending, updated, newEnt, pruneNow, forceUpdates,
                   wlocked, readers, raced, canceled, lastRes, isProv,
                   rndFrame>>

\* A reader takes the read lock (docsForEpochs line 540, isValidForwardDest,
\* outgoingDestinations).
ReaderRLock(r) ==
    /\ cpos # "fatal"
    /\ r \notin readers
    /\ ~wlocked
    /\ readers' = readers \cup {r}
    /\ UNCHANGED <<docs, cpos, pending, updated, newEnt, pruneNow,
                   forceUpdates, wlocked, raced, canceled, lastRes, isProv,
                   rndFrame>>

\* The reader has read the map and gives the lock back (line 541).
ReaderRUnlock(r) ==
    /\ cpos # "fatal"
    /\ r \in readers
    /\ readers' = readers \ {r}
    /\ UNCHANGED <<docs, cpos, pending, updated, newEnt, pruneNow,
                   forceUpdates, wlocked, raced, canceled, lastRes, isProv,
                   rndFrame>>

\* The clock shows another minute of the epoch. The worker reads the minutes
\* at the start of a round only (documentsToFetch, line 518), so they pass
\* while it waits.
EpochClock ==
    /\ cpos = "wait"
    /\ \E e \in FetchReadings : e # elapsed /\ elapsed' = e
    /\ UNCHANGED <<now, docs, disableMixAuth, implSet, authRet, mixRest,
                   rndVars>>

\* The next epoch begins.
EpochTurns ==
    /\ cpos # "fatal"
    /\ LtLimbs(now, U64(MaxEpoch))
    /\ now' = IncLimbs(now)
    /\ elapsed' = 0
    /\ UNCHANGED <<docs, disableMixAuth, implSet, authRet, mixRest, rndVars>>

(***************************************************************************)
(* Specifications.                                                         *)
(***************************************************************************)
vars == <<mixVars, pkiVars, entVars, srvVars, udbVars, rndVars>>

\* The variables other than the mix key's.
notMix == <<pkiVars, entVars, srvVars, udbVars, rndVars>>

\* The variables other than the mix key's and the PKI cache's.
notPki == <<entVars, srvVars, udbVars, rndVars>>

\* Nothing but the mix key and the PKI cache is in use.
OthersIdle == EntryIdle /\ SrvIdle /\ UdbIdle /\ RoundIdle

\* The replay store through the life of a key: created or loaded, used by
\* concurrent workers, closed, reopened.
ReplayInit ==
    /\ \E f \in {NoFile, WornFile(U64(1))} : MixStart(f, U64(1), U64(1))
    /\ PkiIdle /\ OthersIdle

ReplayNext ==
    \/ New /\ UNCHANGED notMix
    \/ \E w \in Workers, t \in Tags : IsReplayCall(w, t) /\ UNCHANGED notMix
    \/ \E w \in Workers : UpdateBegin(w) /\ UNCHANGED notMix
    \/ \E w \in Workers : UpdateCommit(w) /\ UNCHANGED notMix
    \/ Deref /\ UNCHANGED notMix
    \/ Restart /\ UNCHANGED notMix

Init == ReplayInit
Next == ReplayNext
Spec == Init /\ [][Next]_vars

\* The reference count and what closing does, at every position of the
\* clock relative to the key's epoch.
RefcountInit ==
    /\ \E e \in KeyEpochs, n \in ClockEpochs : MixStart(NoFile, e, n)
    /\ PkiIdle /\ OthersIdle

RefcountNext ==
    \/ New /\ UNCHANGED notMix
    \/ Deref /\ UNCHANGED notMix
    \/ Ref /\ UNCHANGED notMix
    \/ \E b \in BOOLEAN : SetUnlinkIfExpired(b) /\ UNCHANGED notMix
    \/ Tick /\ UNCHANGED notMix
    \/ Restart /\ UNCHANGED notMix

SpecRefcount == RefcountInit /\ [][RefcountNext]_vars

\* New on whatever the data directory holds.
LoadInit ==
    /\ \E e \in KeyEpochs : \E f \in {NoFile} \cup DamagedFiles(e) :
          MixStart(f, e, U64(1))
    /\ PkiIdle /\ OthersIdle

LoadNext ==
    \/ New /\ UNCHANGED notMix
    \/ Deref /\ UNCHANGED notMix
    \/ Restart /\ UNCHANGED notMix

SpecLoad == LoadInit /\ [][LoadNext]_vars

\* The PKI cache filled by the worker while the clock moves, and peers
\* authenticating against it.
PkiInit ==
    /\ \E n \in ClockEpochs : MixStart(NoFile, U64(1), n) /\ PkiStart
    /\ OthersIdle

PkiNext ==
    \/ WorkerCycle /\ UNCHANGED notPki
    \/ \E ad \in PeerIds \cup {ShortId}, pk \in LinkKeys :
          AuthIncoming(ad, pk) /\ UNCHANGED notPki
    \/ AuthDone /\ UNCHANGED notPki
    \/ ClockForward /\ UNCHANGED notPki
    \/ ClockBack /\ UNCHANGED notPki

SpecPki == PkiInit /\ [][PkiNext]_vars

\* The PKI cache as seen by the connector and the crypto workers: the peers
\* we send to.
PkiOutNext ==
    \/ WorkerCycleOutgoing /\ UNCHANGED notPki
    \/ \E ad \in PeerIds \cup {ShortId}, pk \in LinkKeys :
          AuthOutgoing(ad, pk) /\ UNCHANGED notPki
    \/ \E id \in PeerIds \cup {CopyId(ShortId)} :
          ForwardPacket(id) /\ UNCHANGED notPki
    \/ AuthDone /\ UNCHANGED notPki
    \/ ClockForward /\ UNCHANGED notPki
    \/ ClockBack /\ UNCHANGED notPki

SpecPkiOut == PkiInit /\ [][PkiOutNext]_vars

\* The PKI cache of a mix of a middle layer, with peers connecting to us and
\* peers we connect to, whatever they present.
AuthNext ==
    \/ WorkerCycleBoth /\ UNCHANGED notPki
    \/ \E ad \in PeerIds \cup {ShortId, LongId}, pk \in LinkKeys :
          AuthIncoming(ad, pk) /\ UNCHANGED notPki
    \/ \E ad \in PeerIds \cup {ShortId, LongId}, pk \in LinkKeys :
          AuthOutgoing(ad, pk) /\ UNCHANGED notPki
    \/ AuthDone /\ UNCHANGED notPki
    \/ ClockForward /\ UNCHANGED notPki
    \/ ClockBack /\ UNCHANGED notPki

SpecAuth == PkiInit /\ [][AuthNext]_vars

\* newPKICacheEntry on every document of the model.
EntryInit ==
    /\ MixStart(NoFile, U64(1), U64(1))
    /\ PkiIdle
    /\ EntryIdle
    /\ SrvIdle
    /\ UdbIdle
    /\ RoundIdle

EntryNext ==
    \E d \in Documents, isProvider \in BOOLEAN :
        BuildEntry(d, isProvider)
            /\ UNCHANGED <<mixVars, pkiVars, srvVars, udbVars, rndVars>>

SpecEntry == EntryInit /\ [][EntryNext]_vars

\* A server through its life: New under every configuration, with or
\* without a PKI client, the worker it starts, and Shutdown from New itself
\* and from concurrent owners of the Server.
ServerInit ==
    /\ MixStart(NoFile, U64(1), U64(1))
    /\ elapsed = 0
    /\ docs = [e \in CacheEpochs |-> NoDoc]
    /\ disableMixAuth = FALSE
    /\ implSet \in BOOLEAN
    /\ authRet = NoAuth
    /\ EntryIdle
    /\ SrvStart
    /\ UdbIdle
    /\ RoundIdle

notSrv == <<mixVars, pkiVars, entVars, udbVars, rndVars>>

ServerNext ==
    \/ NewEarly /\ UNCHANGED notSrv
    \/ NewConstruct /\ UNCHANGED notSrv
    \/ NewListeners /\ UNCHANGED notSrv
    \/ NewReturn /\ UNCHANGED notSrv
    \/ \E c \in Callers : ShutdownCall(c) /\ UNCHANGED notSrv
    \/ \E c \in Callers : ShutdownUnblock(c) /\ UNCHANGED notSrv
    \/ HaltPeriodic /\ UNCHANGED notSrv
    \/ HaltListeners /\ UNCHANGED notSrv
    \/ HaltConnector /\ UNCHANGED notSrv
    \/ HaltCryptoWorkers /\ UNCHANGED notSrv
    \/ HaltScheduler /\ UNCHANGED notSrv
    \/ HaltPkiClose /\ UNCHANGED notSrv
    \/ HaltPkiWait /\ UNCHANGED notSrv
    \/ HaltMixKeys /\ UNCHANGED notSrv
    \/ HaltTop /\ UNCHANGED notSrv
    \/ WorkerEnter /\ UNCHANGED notSrv
    \/ TimerFires /\ UNCHANGED notSrv
    \/ WorkerSelectHalt /\ UNCHANGED notSrv
    \/ WorkerSelectTimer /\ UNCHANGED notSrv
    \/ WorkerStopTimer /\ UNCHANGED notSrv

SpecServer == ServerInit /\ [][ServerNext]_vars

\* The user database created, filled, queried, closed and reopened.
UserDbInit ==
    /\ MixStart(NoFile, U64(1), U64(1))
    /\ PkiIdle
    /\ EntryIdle
    /\ SrvIdle
    /\ UdbIdle
    /\ RoundIdle

notUdb == <<mixVars, pkiVars, entVars, srvVars, rndVars>>

UserDbNext ==
    \/ UdbNew /\ UNCHANGED notUdb
    \/ \E u \in Users, lk \in UserKeys : UdbAdd(u, lk) /\ UNCHANGED notUdb
    \/ \E u \in Users, lk \in UserKeys : UdbIsValid(u, lk) /\ UNCHANGED notUdb
    \/ UdbClose /\ UNCHANGED notUdb

SpecUserDb == UserDbInit /\ [][UserDbNext]_vars

\* The rounds of the worker with a PKI client, from an empty cache, while
\* the clock moves, readers come and go and the server may be halted.
RoundInit ==
    /\ \E n \in ClockEpochs : MixStart(NoFile, U64(1), n)
    /\ elapsed = 0
    /\ docs = [e \in CacheEpochs |-> NoDoc]
    /\ disableMixAuth = FALSE
    /\ implSet = TRUE
    /\ authRet = NoAuth
    /\ EntryIdle
    /\ SrvIdle
    /\ UdbIdle
    /\ RoundStart

notRnd == <<entVars, srvVars, udbVars>>

RoundNext ==
    \/ RoundBegin /\ UNCHANGED notRnd
    \/ FetchOne(FALSE, NoDocument) /\ UNCHANGED notRnd
    \/ \E d \in FetchedDocuments : FetchOne(TRUE, d) /\ UNCHANGED notRnd
    \/ StoreLock /\ UNCHANGED notRnd
    \/ StoreInsert /\ UNCHANGED notRnd
    \/ PruneLock /\ UNCHANGED notRnd
    \/ \E e \in CacheEpochs, stops \in BOOLEAN :
          PruneDelete(e, stops) /\ UNCHANGED notRnd
    \/ PruneDone /\ UNCHANGED notRnd
    \/ ForceUpdate /\ UNCHANGED notRnd
    \/ TimerReset /\ UNCHANGED notRnd
    \/ Cancel /\ UNCHANGED notRnd
    \/ WaitCanceled /\ UNCHANGED notRnd
    \/ \E r \in Readers : ReaderRLock(r) /\ UNCHANGED notRnd
    \/ \E r \in Readers : ReaderRUnlock(r) /\ UNCHANGED notRnd
    \/ EpochClock /\ UNCHANGED notRnd
    \/ EpochTurns /\ UNCHANGED notRnd

SpecRound == RoundInit /\ [][RoundNext]_vars

(***************************************************************************)
(* Properties of the mix key.                                              *)
(***************************************************************************)
\* C1: over any sequence of IsReplay calls on one mix key file, for every
\* non-empty tag the first call to return says false (not a replay) and no
\* other call on that tag ever says false; every call on the empty tag says
\* true.
C1_FalseOncePerTag ==
    /\ \A t \in NonEmptyTags :
          /\ falseRet[t] <= 1
          /\ firstRet[t] # "none" => (firstRet[t] = "false" /\ falseRet[t] = 1)
    /\ firstRet[EmptyTag] \in {"none", "true"}
    /\ falseRet[EmptyTag] = 0

\* A file created in this run on which tag <<1>> was just reported a replay,
\* after its first call said false and a call on the empty tag said true.
C1_Witness ==
    /\ createdHere
    /\ op = [name |-> "IsReplay", ret |-> "true", tag |-> <<1>>]
    /\ firstRet[<<1>>] = "false"
    /\ falseRet[<<1>>] = 1
    /\ firstRet[EmptyTag] = "true"

\* C2: a mix key loaded from the file an earlier MixKey of the same epoch
\* was closed on has the public key of that earlier key, says true for every
\* tag IsReplay had returned for before the file was opened, and says false
\* on the first call for a tag that had not been seen.
C2_ReopenRoundTrip ==
    /\ (k.exists /\ k.keypair) => PublicKey(privMem) = firstPub
    /\ (reopened /\ op.name = "IsReplay" /\ op.tag \in seenAtOpen)
          => op.ret \in {"true", "panic"}
    /\ reopened =>
          \A t \in NonEmptyTags \ seenAtOpen :
              firstRet[t] # "none" => firstRet[t] = "false"

\* The key was created in this run, closed by its last Deref and loaded
\* again; a tag seen before the close was just reported a replay and a tag
\* never seen before was reported new.
C2_Witness ==
    /\ createdHere /\ closedByDeref /\ reopened
    /\ k.exists /\ k.keypair /\ PublicKey(privMem) = firstPub
    /\ op = [name |-> "IsReplay", ret |-> "true", tag |-> <<1>>]
    /\ <<1>> \in seenAtOpen
    /\ <<2>> \notin seenAtOpen
    /\ firstRet[<<2>>] = "false"

\* C3: when calls of IsReplay on the same, not yet seen, non-empty tag are in
\* progress together, exactly one call on that tag says false once any of
\* them has returned, whatever the interleaving.
C3_ConcurrentTestAndSet ==
    \A t \in NonEmptyTags : raceDone[t] >= 1 => falseRet[t] = 1

\* Two overlapping calls on a fresh tag have both returned.
C3_Witness ==
    /\ createdHere
    /\ raceDone[<<1>>] = 2
    /\ falseRet[<<1>>] = 1
    /\ \A w \in Workers : wpc[w] = "idle"

\* C4, as stated: once N >= 1 Ref() calls and N Deref() calls have returned
\* on a key New returned, forceClose has run exactly once.
C4_ClosedAfterBalancedCalls ==
    (k.exists /\ nRef >= 1 /\ nDeref = nRef) => closeCount = 1

\* C4, amended: New hands out the first reference, so after N Ref() calls
\* and N Deref() calls the key has not been closed; the Deref() after those,
\* the (N+1)-th, closes it, and forceClose has then run exactly once.
C4_ClosedByTheExtraDeref ==
    k.exists =>
        /\ nDeref <= nRef + 1
        /\ closeCount = IF nDeref = nRef + 1 THEN 1 ELSE 0

\* Two Ref() calls and three Deref() calls have returned; the key is closed.
C4_Witness ==
    /\ k.exists /\ ~panicked
    /\ nRef = 2 /\ nDeref = 3
    /\ closeCount = 1
    /\ ~k.db

\* C5: a key whose refcount is zero or less is closed and has been closed
\* once; a Ref() or Deref() on it panics and leaves the store handle and the
\* private key cleared without running forceClose again.
C5_ClosedKeysStayClosed ==
    /\ [](closeCount <= 1)
    /\ []((k.exists /\ k.refCount <= 0) =>
             (~k.db /\ ~k.keypair /\ privMem = ZeroKey /\ closeCount = 1))
    /\ [][(k.exists /\ k.refCount <= 0 /\ op'.name \in {"Ref", "Deref"}) =>
             /\ panicked'
             /\ op'.ret = "panic"
             /\ ~k'.db /\ ~k'.keypair
             /\ privMem' = privMem
             /\ closeCount' = closeCount
             /\ file' = file]_vars

\* A Ref() on a closed key has just panicked.
C5_Witness ==
    /\ op.name = "Ref" /\ op.ret = "panic"
    /\ panicked
    /\ closeCount = 1
    /\ ~k.db /\ ~k.keypair

\* The small natural number a uint64 holds.
NatOf(x) == x[1] + 65536 * x[2]

\* key < current - 1 in 64-bit unsigned arithmetic, for epochs below 2^31:
\* at current = 0 the right-hand side is 2^64 - 1.
ExpiredAt(key, current) ==
    IF NatOf(current) = 0 THEN TRUE ELSE NatOf(key) < NatOf(current) - 1

NotExpired(key, current) ==
    key \in {DecLimbs(current), current, IncLimbs(current)}

\* C26: closing a MixKey never unlinks the file of a key that is not expired:
\* whatever the current epoch, 0 and 1 included, the Deref() that closes a key
\* of epoch current-1, current or current+1 leaves its database file in place
\* even when unlinkIfExpired is set.
C26_NotExpiredKeepsFile ==
    [][(op'.name = "Deref" /\ k.refCount = 1 /\ k.db /\ file.exists
        /\ NotExpired(k.epoch, now))
       => file'.exists]_vars

\* From epoch 1 on the subtraction does not wrap and the file of a key that
\* is not expired stays.
C26_NotExpiredKeepsFileFromOne ==
    [][(op'.name = "Deref" /\ k.refCount = 1 /\ k.db /\ file.exists
        /\ NatOf(now) >= 1 /\ NotExpired(k.epoch, now))
       => file' = file]_vars

\* At epoch 0 the key of the current epoch has just lost its file.
C26_WitnessWrap ==
    /\ op = [name |-> "Deref", ret |-> "closed", tag |-> EmptyTag]
    /\ NatOf(now) = 0 /\ k.epoch = now
    /\ k.unlinkIfExpired /\ k.refCount = 0
    /\ ~file.exists

\* The metadata New accepts for an epoch.
ValidStore(f, epoch) ==
    /\ f.version = Present(<<0>>)
    /\ f.privateKey # Absent /\ Len(f.privateKey[1]) = PrivateKeySize
    /\ f.epochKey = Present(PutUint64(epoch))

\* C7: New on a store that has a version entry but whose metadata is not
\* acceptable (version other than the byte 0, privateKey missing or
\* undecodable, epoch missing, malformed or different) returns an error and
\* no key, without faulting, without changing the file, and with the store
\* handle closed.
C7_LoadFailsCleanly ==
    [][(op'.name = "New" /\ file.version # Absent
          /\ ~ValidStore(file, reqEpoch)) =>
        /\ op'.ret = "err"
        /\ ~panicked'
        /\ ~k'.exists
        /\ ~flock'
        /\ file' = file]_vars

(***************************************************************************)
(* Properties of the authentication of incoming peers.                     *)
(***************************************************************************)
\* The cache entry of epoch e lists the node id with exactly this link key.
ListsWithKey(e, id, pk) ==
    /\ DocAt(docs, e).present
    /\ Lookup(DocAt(docs, e).incoming, id) = Present(pk)

\* The cache entry of epoch e lists the node id, with whatever link key.
Lists(e, id) ==
    /\ DocAt(docs, e).present
    /\ Lookup(DocAt(docs, e).incoming, id) # Absent

\* The peer last authenticated is listed, with the key it presented, in the
\* document of the next epoch and in no other cached document.
OnlyInNextEpoch ==
    /\ authRet.kind = "incoming"
    /\ ~disableMixAuth
    /\ ListsWithKey(IncLimbs(now), authRet.ad, authRet.pk)
    /\ \A e \in CacheEpochs : e # IncLimbs(now) => ~Lists(e, authRet.ad)

\* C8 as stated: with mix authentication enabled, at the very start of an
\* epoch (elapsed 0, a whole epoch remaining), a peer listed with a matching
\* link key only in the document of current+1 is valid but may not send.
C8_ValidAtEpochStart ==
    (OnlyInNextEpoch /\ elapsed = 0 /\ Till = Period)
        => (authRet.isValid /\ ~authRet.canSend)

\* C8 amended: at the very start of an epoch such a peer is rejected
\* outright, (false, false), because the document of current+1 is searched
\* only once less than 30 minutes remain; it is valid without being allowed
\* to send when at least 2 and less than 30 minutes remain.
C8_NextEpochPeerVerdict ==
    /\ (OnlyInNextEpoch /\ elapsed = 0 /\ Till = Period)
          => (~authRet.isValid /\ ~authRet.canSend)
    /\ (OnlyInNextEpoch /\ Till >= 2 /\ Till < 30)
          => (authRet.isValid /\ ~authRet.canSend)

C8_Witness ==
    /\ OnlyInNextEpoch
    /\ elapsed = 0
    /\ Till = Period
    /\ ~authRet.isValid

\* The epochs the text says are searched, written with its own numbers.
SearchSet ==
    {now} \cup (IF Till < 30 THEN {IncLimbs(now)}
                ELSE IF elapsed < 3 THEN {DecLimbs(now)}
                ELSE {})

\* The searched epochs whose entry lists the peer with the presented key.
FoundIn == {e \in SearchSet : ListsWithKey(e, authRet.ad, authRet.pk)}

\* C9: authenticate_incoming answers (true, true) whenever mix
\* authentication is disabled.  Otherwise it searches the entries of current,
\* plus current+1 if less than 30 minutes remain, else plus current-1 if
\* less than 3 minutes have elapsed; a peer listed with a matching link key
\* in a searched entry is valid, and may send exactly when such an entry is
\* of epoch current, or of current+1 with less than 2 minutes remaining, or
\* of current-1 with less than 2 minutes elapsed; a peer in no searched
\* entry gets (false, false).
C9_IncomingVerdict ==
    authRet.kind = "incoming" =>
        IF disableMixAuth THEN authRet.canSend /\ authRet.isValid
        ELSE IF FoundIn = {} THEN ~authRet.canSend /\ ~authRet.isValid
        ELSE /\ authRet.isValid
             /\ authRet.canSend <=>
                  \E e \in FoundIn :
                     \/ e = now
                     \/ e = IncLimbs(now) /\ Till < 2
                     \/ e = DecLimbs(now) /\ elapsed < 2

C9_Witness ==
    /\ OnlyInNextEpoch
    /\ Till < 2
    /\ authRet.isValid
    /\ authRet.canSend

\* C10: with mix authentication enabled, a peer is valid (and so allowed to
\* send) only if some searched entry lists its node id with a link key equal
\* to the key presented; an entry listing another key does not keep a
\* searched entry that lists the presented key from accepting the peer.
C10_MatchingKeyRequired ==
    (authRet.kind = "incoming" /\ ~disableMixAuth) =>
        /\ authRet.canSend => authRet.isValid
        /\ authRet.isValid =>
              \E e \in SearchSet : ListsWithKey(e, authRet.ad, authRet.pk)
        /\ (\E e1, e2 \in SearchSet :
               /\ Lists(e1, authRet.ad)
               /\ ~ListsWithKey(e1, authRet.ad, authRet.pk)
               /\ ListsWithKey(e2, authRet.ad, authRet.pk))
              => authRet.isValid

C10_Witness ==
    /\ authRet.kind = "incoming"
    /\ ~disableMixAuth
    /\ Till < 30
    /\ Lists(now, authRet.ad)
    /\ ~ListsWithKey(now, authRet.ad, authRet.pk)
    /\ ListsWithKey(IncLimbs(now), authRet.ad, authRet.pk)
    /\ authRet.isValid

\* The peer last authenticated is listed, with the key it presented, in the
\* document of the previous epoch, which is still in the cache, and in no
\* other cached document.
OnlyInPreviousEpoch ==
    /\ authRet.kind = "incoming"
    /\ ~disableMixAuth
    /\ NatOf(now) >= 1
    /\ ListsWithKey(DecLimbs(now), authRet.ad, authRet.pk)
    /\ \A e \in CacheEpochs : e # DecLimbs(now) => ~Lists(e, authRet.ad)

\* C11: with mix authentication enabled and the document of the previous
\* epoch (99 when the current one is 100) still cached, a node listed with a
\* matching link key only in that document is answered (can_send = true,
\* is_valid = true) 1 minute into the current epoch and (false, false)
\* 4 minutes into it.
C11_LateSlack ==
    OnlyInPreviousEpoch =>
        /\ elapsed = 1 => (authRet.canSend /\ authRet.isValid)
        /\ elapsed = 4 => (~authRet.canSend /\ ~authRet.isValid)

\* One minute into the epoch a node of the previous epoch's document only
\* has just been accepted.
C11_Witness ==
    /\ OnlyInPreviousEpoch
    /\ elapsed = 1
    /\ authRet.canSend
    /\ authRet.isValid

\* Four minutes into the epoch the previous document is still cached, and a
\* node listed only there has just been rejected.
C11_WitnessLate ==
    /\ OnlyInPreviousEpoch
    /\ elapsed = 4
    /\ ~authRet.isValid

(***************************************************************************)
(* Properties of outgoing authentication and forward destinations.         *)
(***************************************************************************)
\* The cache entry of epoch e lists the node id as a peer we send to, with
\* exactly this link key.
SendsToWithKey(e, id, pk) ==
    /\ DocAt(docs, e).present
    /\ Lookup(DocAt(docs, e).outgoing, id) = Present(pk)

\* C12: with mix authentication enabled, authenticate_outgoing searches the
\* epochs incoming authentication searches; it answers can_send = true only
\* if the entry of the current epoch lists the peer with the presented link
\* key among the peers we send to; a peer listed so in a searched entry is
\* valid, and one listed only in current+1 or current-1 may not be sent to,
\* at any reading of the clock.
C12_OutgoingVerdict ==
    (authRet.kind = "outgoing" /\ ~disableMixAuth) =>
        LET id == CopyId(authRet.ad)
            found == {e \in SearchSet : SendsToWithKey(e, id, authRet.pk)}
        IN /\ authRet.isValid <=> found # {}
           /\ authRet.canSend <=> now \in found
           /\ (found # {} /\ now \notin found)
                 => (authRet.isValid /\ ~authRet.canSend)

\* Less than 2 minutes before the epoch changes, a peer listed only in the
\* document of the next epoch has been found valid and may not be sent to.
C12_Witness ==
    /\ authRet.kind = "outgoing"
    /\ ~disableMixAuth
    /\ Till < 2
    /\ SendsToWithKey(IncLimbs(now), authRet.ad, authRet.pk)
    /\ ~SendsToWithKey(now, authRet.ad, authRet.pk)
    /\ authRet.isValid
    /\ ~authRet.canSend

\* C13: is_valid_forward_dest(id) is true exactly when mix authentication
\* is disabled or the entry of the current epoch is cached and lists id
\* among the peers we send to; with mix authentication enabled a packet
\* whose next hop is not listed there is never handed to the scheduler.
C13_ForwardDest ==
    authRet.kind = "forward" =>
        /\ authRet.isValid <=>
              \/ disableMixAuth
              \/ /\ DocAt(docs, now).present
                 /\ Lookup(DocAt(docs, now).outgoing, authRet.ad) # Absent
        /\ (/\ ~disableMixAuth
            /\ \/ ~DocAt(docs, now).present
               \/ Lookup(DocAt(docs, now).outgoing, authRet.ad) = Absent)
              => ~authRet.queued

\* A packet for a next hop listed only in the document of the next epoch
\* has been dropped.
C13_Witness ==
    /\ authRet.kind = "forward"
    /\ ~disableMixAuth
    /\ DocAt(docs, now).present
    /\ Lookup(DocAt(docs, now).outgoing, authRet.ad) = Absent
    /\ Lookup(DocAt(docs, IncLimbs(now)).outgoing, authRet.ad) # Absent
    /\ ~authRet.isValid
    /\ ~authRet.queued

(***************************************************************************)
(* Properties of the cache entry.                                          *)
(***************************************************************************)
\* The layer before ours, as the text defines it: the providers for layer
\* 0, the last topology layer for a provider, else the layer below.
IncomingLayerOf(d) ==
    IF d.self.layer = 0 THEN LayerProvider
    ELSE IF d.self.layer = LayerProvider THEN d.len - 1
    ELSE d.self.layer - 1

\* The layer after ours, as the text defines it: the providers for the last
\* topology layer, layer 0 for a provider, else the layer above.
OutgoingLayerOf(d) ==
    IF d.self.layer = LayerProvider THEN 0
    ELSE IF d.self.layer = d.len - 1 THEN LayerProvider
    ELSE d.self.layer + 1

\* The entry's maps list exactly the nodes of the layers before and after
\* ours.
MapsFollowLayers ==
    /\ entry.kind = "ok"
    /\ \A p \in PeerNumbers :
          /\ Lookup(entry.ent.incoming, NodeId(p)) # Absent
                <=> p \in NodesOfLayer(fetched.doc, IncomingLayerOf(fetched.doc))
          /\ Lookup(entry.ent.outgoing, NodeId(p)) # Absent
                <=> p \in NodesOfLayer(fetched.doc, OutgoingLayerOf(fetched.doc))

\* C14: for every document that passes the validation of newPKICacheEntry
\* and every node id, the id is in the incoming map iff its descriptor is in
\* the layer before ours, and in the outgoing map iff its descriptor is in
\* the layer after ours.
C14_MapsFollowLayers ==
    entry.kind \in {"ok", "panic"} => MapsFollowLayers

\* The same for documents of at most 255 topology layers.
C14_MapsFollowLayersBelow256 ==
    (entry.kind \in {"ok", "panic"} /\ fetched.doc.len < Uint8Range)
        => MapsFollowLayers

(***************************************************************************)
(* Properties of the server's construction and shutdown.                   *)
(***************************************************************************)
\* New has come to its end, by a return or by a panic.
NewEnded == newPc \in {"returned", "panicked"}

\* C15: when the configuration has GenerateOnly set and the early steps
\* succeed, New generates and persists the keys, starts no worker, cleans up
\* what it created and returns ErrGenerateOnly.
C15_GenerateOnlyReturns ==
    (cfg.generateOnly /\ ~cfg.earlyFail /\ NewEnded) =>
        /\ newRet = "ErrGenerateOnly"
        /\ srv.persisted
        /\ wk = "none"
        /\ srv.mixKeys = "nil"
        /\ srv.linkKey = "reset" /\ srv.identityKey = "reset"

\* The order in which the claim says the components go down.
ClaimedOrder ==
    <<"periodic", "listeners", "connector", "cryptoWorkers", "scheduler",
      "pki", "mixKeys", "inboundPackets", "keys">>

IsPrefix(a, b) == Len(a) <= Len(b) /\ SubSeq(b, 1, Len(a)) = a

InLog(name) == \E i \in DOMAIN haltLog : haltLog[i] = name

\* C16: halt on a server New returned with all components running takes
\* them down in the order periodic timer, listeners, connector, crypto
\* workers, scheduler, PKI (waiting for its worker), mix keys, then the
\* ingress queue and the keys; and the connector, halted before the PKI,
\* stays referenced until the PKI halt has returned.
C16_HaltOrder ==
    newRet = "ok" =>
        /\ IsPrefix(haltLog, ClaimedOrder)
        /\ (InLog("connector") /\ ~InLog("pki")) => srv.connector = "halted"
        /\ InLog("pki") => (srv.connector = "nil" /\ wk = "done")
        /\ ~InLog("connector") => srv.connector = "running"

\* A server that had everything running, with a PKI client and its worker
\* waiting, has been halted to the end.
C16_Witness ==
    /\ newRet = "ok"
    /\ implSet
    /\ haltLog = ClaimedOrder
    /\ hpc = Len(HaltSteps) + 1

\* The same server while halt is waiting for the worker to return: the
\* connector is halted and still referenced.
C16_WitnessWaiting ==
    /\ newRet = "ok"
    /\ HaltAt("pki") /\ haltClosed /\ wk = "select"
    /\ srv.connector = "halted"

\* Some call of Shutdown has been made.
ShutdownCalled == \E c \in Callers : cpc[c] # "idle"

\* No component was taken down twice.
HaltedOnce ==
    \A i, j \in DOMAIN haltLog : haltLog[i] = haltLog[j] => i = j

\* A call of Shutdown that finds the once-guard done returns at once and
\* touches no component.
LaterCallIsIdle ==
    \A c \in Callers :
        (once.done /\ cpc[c] = "idle" /\ cpc'[c] # "idle") =>
            /\ cpc'[c] = "returned"
            /\ srv' = srv /\ haltLog' = haltLog /\ hpc' = hpc
            /\ haltClosed' = haltClosed

\* C17: over any number of sequential or concurrent Shutdown calls on a
\* Server, the one New issues on a failed construction included, the halt
\* sequence is entered exactly once, and a later call has no effect on any
\* component.
C17_HaltOnce ==
    /\ [](haltRuns = (IF ShutdownCalled THEN 1 ELSE 0))
    /\ [](HaltedOnce)
    /\ [](once.done => \A c \in Callers : cpc[c] # "halting")
    /\ [][LaterCallIsIdle]_vars
    /\ [][once.done => (srv' = srv /\ haltLog' = haltLog)]_vars

\* Both owners of a running server have called Shutdown and returned, and
\* the server went down once.
C17_Witness ==
    /\ \A c \in Callers \ {0} : cpc[c] = "returned"
    /\ once.done
    /\ haltRuns = 1
    /\ haltLog = ClaimedOrder

\* One owner is inside halt while the other waits in Shutdown.
C17_WitnessConcurrent ==
    /\ \E c, d \in Callers \ {0} : cpc[c] = "halting" /\ cpc[d] = "blocked"
    /\ haltLog # <<>>

\* The call New issued after a listener failed has returned.
C17_WitnessDeferred ==
    /\ cpc[0] = "returned"
    /\ newRet = "errListener"
    /\ haltRuns = 1

\* New has failed past the point where the mix keys are initialized.
LateFailure ==
    /\ ~cfg.earlyFail
    /\ cfg.generateOnly \/ cfg.isProvider \/ cfg.failAt >= 1
    /\ newPc \in {"deferred", "returned", "panicked"}

\* The components the halt log names.
Halted == {haltLog[i] : i \in DOMAIN haltLog} \ {"keys"}

\* What a clean-up after a late failure looks like: no fault, and once New
\* has ended it has returned the error and halt has taken down exactly what
\* was constructed.
CleansUp ==
    /\ ~crashed
    /\ NewEnded =>
          /\ newRet \in {"ErrGenerateOnly", "errNotImplemented", "errListener"}
          /\ cpc[0] = "returned"
          /\ Halted = built
          /\ srv.linkKey = "reset" /\ srv.identityKey = "reset"

\* C19: at every point where New can fail after the mix keys are
\* initialized (GenerateOnly, provider backend not implemented, a listener
\* failing), Shutdown runs on the partial Server, halt completes without
\* fault, halting exactly what had been constructed, and New returns the
\* error.
C19_LateFailureCleansUp == LateFailure => CleansUp

\* The same for the listener failures alone.
C19_ListenerFailureCleansUp ==
    (LateFailure /\ ~cfg.generateOnly /\ ~cfg.isProvider) => CleansUp

\* The same for the provider alone.
C19_ProviderFailureCleansUp ==
    (LateFailure /\ ~cfg.generateOnly /\ cfg.isProvider) => CleansUp

(***************************************************************************)
(* Properties of the PKI worker's shutdown.                                *)
(***************************************************************************)
\* The worker waits at line 457 on a timer channel nothing will send on:
\* the timer has expired, its value was taken by the select, and only the
\* worker itself re-arms it (line 493).
BlockedForGood == wk = "drain" /\ timer = "received"

\* C20: once pki.halt() has closed the halt signal the worker returns and
\* pki.halt() returns, whatever the worker was doing: wherever the worker
\* can block it also waits on the halt signal or on the fetch context.
C20_HaltReleasesWorker ==
    (HaltAt("pki") /\ haltClosed) => ~BlockedForGood

\* The same, for a worker that was still waiting for its timer when the
\* halt signal was closed: it is never past the select.
C20_HaltReleasesWaitingWorker ==
    (HaltAt("pki") /\ haltClosed /\ timer = "armed") =>
        wk \in {"select", "done"}

\* C21: with a PKI client configured and no halt requested, the worker runs
\* a fetch round after the startup delay and again after every recheck
\* interval: once the timer has expired and the select has taken its value
\* the worker goes on to the fetch, and is not left waiting with no round
\* to come.
C21_WorkerRunsRounds ==
    (implSet /\ ~haltClosed /\ timer = "received") =>
        wk \in {"stop", "fetch"}

\* C27: whatever the cache holds, whatever the clock reads, whatever the
\* configuration and whatever the peer presents, authenticateIncoming and
\* authenticateOutgoing return canSend only together with isValid; and with
\* mix authentication enabled, incoming credentials whose additional data is
\* not exactly NodeIDLength bytes long get (false, false).
C27_CanSendOnlyIfValid ==
    /\ authRet.kind \in {"incoming", "outgoing"} =>
          (authRet.canSend => authRet.isValid)
    /\ (authRet.kind = "incoming" /\ ~disableMixAuth
            /\ Len(authRet.ad) # NodeIDLength) =>
          (~authRet.canSend /\ ~authRet.isValid)

\* A peer presenting a node id with a byte appended and the link key the
\* current document lists for that node has been refused.
C27_Witness ==
    /\ authRet.kind = "incoming" /\ ~disableMixAuth
    /\ authRet.ad = LongId
    /\ DocAt(docs, now).present
    /\ Lookup(DocAt(docs, now).incoming, CopyId(authRet.ad))
          = Present(authRet.pk)
    /\ ~authRet.canSend /\ ~authRet.isValid

\* A peer we connect to is listed in the next epoch's document only: valid,
\* and not to be sent to yet.
C27_WitnessOutgoingValidOnly ==
    /\ authRet.kind = "outgoing" /\ ~disableMixAuth
    /\ authRet.isValid /\ ~authRet.canSend

\* A peer we connect to is listed in the current document.
C27_WitnessOutgoingCanSend ==
    /\ authRet.kind = "outgoing" /\ ~disableMixAuth
    /\ authRet.isValid /\ authRet.canSend

\* A connecting peer is listed, and outside the window in which it may send.
C27_WitnessIncomingValidOnly ==
    /\ authRet.kind = "incoming" /\ ~disableMixAuth
    /\ authRet.isValid /\ ~authRet.canSend

\* Too short additional data, refused.
C27_WitnessShort ==
    /\ authRet.kind = "incoming" /\ ~disableMixAuth
    /\ authRet.ad = ShortId
    /\ ~authRet.canSend /\ ~authRet.isValid

(***************************************************************************)
(* Properties of the user database.                                        *)
(***************************************************************************)
\* The last call was IsValid.
Asked == udbRet.op = "IsValid"

C18_WitnessStranger ==
    /\ Asked /\ ~udbRet.ret
    /\ udbReopened
    /\ udbLast[udbRet.user] = NoLinkKey
    /\ \E v \in Users : udbLast[v] = udbRet.key

(***************************************************************************)
(* Properties of the worker's rounds.                                      *)
(***************************************************************************)
\* The step in which a round begins: documentsToFetch is called.
RoundBegins == cpos = "wait" /\ cpos' \in {"fetch", "reset"}

\* The epochs the claim says documentsToFetch returns, in order.
ClaimedFetch ==
    LET next == IncLimbs(now) IN
    (IF ~docs[now].present THEN <<now>> ELSE <<>>)
    \o (IF ~docs[next].present /\ Period - elapsed < 45 THEN <<next>>
        ELSE <<>>)

\* C25: documents_to_fetch() returns exactly the current epoch if the cache
\* has no entry for it, followed by current+1 if the cache has no entry for
\* it and less than 45 minutes remain in the epoch; no other epoch, none
\* that is cached, and the cache is left as it was.
C25_DocumentsToFetch ==
    [][RoundBegins =>
          /\ pending' = ClaimedFetch
          /\ \A i \in DOMAIN pending' :
                /\ pending'[i] \in {now, IncLimbs(now)}
                /\ ~docs[pending'[i]].present
          /\ docs' = docs]_vars

\* A round asked for the current and the next epoch, 44 minutes before the
\* end of the epoch, and an earlier round with the current epoch cached
\* and 45 minutes left asked for nothing.
C25_Witness ==
    /\ cpos = "fetch"
    /\ pending = <<now, IncLimbs(now)>>
    /\ Till = nextFetchTill - 1

\* With 45 minutes left and the current epoch cached, the round asks for
\* nothing.
C25_WitnessNothing ==
    /\ cpos = "reset"
    /\ pending = <<>>
    /\ lastRes = "none"
    /\ Till = nextFetchTill
    /\ docs[now].present /\ ~docs[IncLimbs(now)].present

\* C22: every mutation of the PKI cache map, the worker's insertions and
\* the deletions of pruning, is done holding the write lock, so no reader
\* holds the read lock while the worker inserts or deletes an entry.
C22_MutationsUnderLock ==
    /\ ~raced
    /\ cpos \in {"store", "prune"} => (wlocked /\ readers = {})

\* The same for the insertions alone.
C22_InsertionsUnderLock ==
    cpos = "store" => (wlocked /\ readers = {})

\* The readers and the lock: a reader never holds the read lock while the
\* write lock is held.
C22_ReadersExcludeWriter == ~(wlocked /\ readers # {})

\* The round is over: the worker is at the timer reset, or has returned.
RoundOver == cpos \in {"reset", "returned"}

\* An entry leaves the cache in this step.
Removes == \E e \in DOMAIN docs : docs[e].present /\ ~docs'[e].present

C23_WitnessPruning ==
    /\ cpos = "prune"
    /\ Stale(docs, pruneNow) # {}

\* A round in which both fetches failed is at the timer reset.
C23_WitnessNothingStored ==
    /\ cpos = "reset"
    /\ ~updated /\ forceUpdates = 0
    /\ lastRes = "getError"

\* The step in which the fetch of one epoch ends.
FetchEnds == cpos = "fetch" /\ <<cpos, pending>>' # <<cpos, pending>>

\* The fetch failed or the document cannot be made into a cache entry.
Failures ==
    {"getError", "notInDocument", "noTopology", "nameMismatch", "layerInsane"}

\* The worker goes on with the epochs left, or to the end of the round and
\* the timer.
GoesOn ==
    /\ pending' = Tail(pending)
    /\ cpos' = IF pending' # <<>> THEN "fetch"
               ELSE IF updated THEN "pruneLock" ELSE "reset"

C24_WitnessNextRound ==
    /\ cpos = "fetch"
    /\ lastRes = "none"
    /\ Len(pending) = 2
    /\ \E e \in DOMAIN docs : docs[e].present

\* A provider was handed a document that gives it a topology layer.
C24_WitnessLayer ==
    /\ isProv /\ lastRes = "layerInsane" /\ cpos = "reset"

C24_WitnessNotInDocument == lastRes = "notInDocument" /\ cpos = "reset"

C24_WitnessNoTopology == lastRes = "noTopology" /\ cpos = "reset"

C24_WitnessGetError == lastRes = "getError" /\ cpos = "fetch"

====
